---- MODULE Spec2Model ----
(***************************************************************************)
(* Evaluation and hyperparameter-sweep engine of PicAI (eval/*.py).        *)
(*                                                                         *)
(* Numbers.  Every metric the programs report is a float rounded to four   *)
(* decimals; the model carries it as the integer number of 1/10000 units   *)
(* (10000 is 1.0, 6667 is 0.6667).  Similarity parameters (minScore,       *)
(* relativeCutoff) are carried in hundredths (50 is 0.5).                  *)
(*                                                                         *)
(* Specifications.                                                         *)
(*   SpecMetrics  the pure metric functions applied to drawn inputs        *)
(*   SpecThresh   analyze_thresholds applied to a drawn labeled corpus     *)
(*   SpecKeys     combo_key applied to two drawn configurations            *)
(*   SpecEval     run_combo (run_sweep.py) and main (run_baseline.py)      *)
(*                applied to a drawn golden set and drawn endpoint replies *)
(*   Spec         main of run_sweep.py: starts, the combo loop, checkpoint *)
(*                writes, the final ranking, and process interruption      *)
(*   SpecLong     Spec with longer --k axes, every query answered          *)
(*   SpecFair     Spec without interruption, a started process going on    *)
(***************************************************************************)
EXTENDS Integers, Sequences, FiniteSets, TLC

VARIABLES
    \* ---- SpecMetrics: inputs and outputs of the metric functions
    mIn, mOut,
    \* ---- SpecThresh: the labeled corpus, the result of analyze_thresholds
    \* and the by_category summary of the benchmark's main
    tIn, tOut, tCat,
    \* ---- SpecKeys: two configurations and their checkpoint keys
    kIn, kOut,
    \* ---- SpecEval: golden set, endpoint replies, results of both evaluators
    eGolden, eReplies, eCombo, bPc, bRaw, bJudge, bOut,
    eWire,             \* calls and sleeps made by run_combo and by Step 1
    \* ---- Spec: the sweep driver
    ckptFile,          \* results/sweep_checkpoint.json on disk
    outFile,           \* results/tuning_results.json on disk
    pc,                \* position of the running process ("idle": none)
    args,              \* parsed command line of the running process
    checkpoint,        \* main's local `checkpoint["completed"]`
    already_done,      \* main's local `already_done`
    results,           \* main's local `results`
    combos_remaining,  \* main's local `combos_remaining`
    idx,               \* number of loop iterations finished
    result,            \* what the run_combo call under way returns
    starts,            \* number of process starts so far
    hist               \* history of the current/last process (observation only)

metricVars == <<mIn, mOut>>
threshVars == <<tIn, tOut, tCat>>
keyVars == <<kIn, kOut>>
evalVars == <<eGolden, eReplies, eCombo, bPc, bRaw, bJudge, bOut, eWire>>
sweepVars == <<ckptFile, outFile, pc, args, checkpoint, already_done, results,
               combos_remaining, idx, result, starts, hist>>
vars == <<metricVars, threshVars, keyVars, evalVars, sweepVars>>

----------------------------------------------------------------------------
(* Bounds of the model *)

\* longest identifier list given to a metric function
MaxIds == 2
\* longest tag list given to compute_tag_metrics
MaxTags == 2

----------------------------------------------------------------------------
(* Generic helpers *)

Range(s) == {s[i] : i \in DOMAIN s}

SeqsUpTo(S, n) == UNION {[1..m -> S] : m \in 0..n}

RECURSIVE SumSeq(_)
SumSeq(s) == IF s = <<>> THEN 0 ELSE s[1] + SumSeq(Tail(s))

\* 1.0 in units of the fourth decimal: round(x, 4)
Scale == 10000

\* round(num / den, 4) in units of 1/10000, for a quotient that is not an exact
\* decimal tie (nearest unit); an exact tie rounds to even here, and no
\* precision, recall or f1 of lists shorter than 32 is a tie.
Round4(num, den) ==
    LET q == (num * Scale) \div den
        r == (num * Scale) % den
    IN  IF 2 * r > den THEN q + 1
        ELSE IF 2 * r < den THEN q
        ELSE IF q % 2 = 0 THEN q ELSE q + 1

Metric(p, r, f) == [precision |-> p, recall |-> r, f1 |-> f]

----------------------------------------------------------------------------
(* Metric functions *)

\* compute_photo_accuracy counting list elements instead of distinct ids
photo_accuracy_by_length(retrieved_ids, expected_ids) ==
    IF expected_ids = <<>> /\ retrieved_ids = <<>> THEN Metric(Scale, Scale, Scale)
    ELSE IF expected_ids = <<>> THEN Metric(0, Scale, 0)
    ELSE IF retrieved_ids = <<>> THEN Metric(Scale, 0, 0)
    ELSE LET tp == Cardinality(Range(retrieved_ids) \cap Range(expected_ids))
             nr == Len(retrieved_ids)
             ne == Len(expected_ids)
         IN  Metric(Round4(tp, nr), Round4(tp, ne),
                    IF tp > 0 THEN Round4(2 * tp * tp, tp * ne + tp * nr) ELSE 0)

\* compute_photo_accuracy counting the hits over the retrieved list, repeated
\* ids included, against the sizes of the sets
photo_accuracy_hits_in_list(retrieved_ids, expected_ids) ==
    LET retrieved == Range(retrieved_ids)
        expected == Range(expected_ids)
    IN  IF expected = {} /\ retrieved = {} THEN Metric(Scale, Scale, Scale)
        ELSE IF expected = {} THEN Metric(0, Scale, 0)
        ELSE IF retrieved = {} THEN Metric(Scale, 0, 0)
        ELSE LET tp == Cardinality({i \in DOMAIN retrieved_ids :
                                      retrieved_ids[i] \in expected})
                 nr == Cardinality(retrieved)
                 ne == Cardinality(expected)
             IN  Metric(Round4(tp, nr), Round4(tp, ne),
                        IF tp > 0 THEN Round4(2 * tp * tp, tp * ne + tp * nr) ELSE 0)

\* run_sweep.py compute_photo_accuracy
sweep_compute_photo_accuracy(retrieved_ids, expected_ids) ==
    LET retrieved == Range(retrieved_ids)
        expected == Range(expected_ids)
    IN  IF expected = {} /\ retrieved = {} THEN Metric(Scale, Scale, Scale)
        ELSE IF expected = {} THEN Metric(0, Scale, 0)
        ELSE IF retrieved = {} THEN Metric(Scale, 0, 0)
        ELSE LET tp == Cardinality(retrieved \cap expected)
                 nr == Cardinality(retrieved)
                 ne == Cardinality(expected)
             IN  Metric(Round4(tp, nr), Round4(tp, ne),
                        \* 2*p*r / (p+r) with p = tp/nr, r = tp/ne, if p+r > 0
                        IF tp > 0 THEN Round4(2 * tp * tp, tp * ne + tp * nr) ELSE 0)

\* compute_photo_accuracy with the two one-sided rows exchanged
photo_accuracy_rows_swapped(retrieved_ids, expected_ids) ==
    LET retrieved == Range(retrieved_ids)
        expected == Range(expected_ids)
    IN  IF expected = {} /\ retrieved = {} THEN Metric(Scale, Scale, Scale)
        ELSE IF expected = {} THEN Metric(Scale, 0, 0)
        ELSE IF retrieved = {} THEN Metric(0, Scale, 0)
        ELSE LET tp == Cardinality(retrieved \cap expected)
                 nr == Cardinality(retrieved)
                 ne == Cardinality(expected)
             IN  Metric(Round4(tp, nr), Round4(tp, ne),
                        IF tp > 0 THEN Round4(2 * tp * tp, tp * ne + tp * nr) ELSE 0)

\* run_baseline.py compute_photo_accuracy
baseline_compute_photo_accuracy(retrieved_ids, expected_ids) ==
    LET retrieved == Range(retrieved_ids)
        expected == Range(expected_ids)
    IN  IF expected = {} /\ retrieved = {} THEN Metric(Scale, Scale, Scale)
        ELSE IF expected = {} THEN Metric(0, Scale, 0)
        ELSE IF retrieved = {} THEN Metric(Scale, 0, 0)
        ELSE LET tp == Cardinality(retrieved \cap expected)
                 nr == Cardinality(retrieved)
                 ne == Cardinality(expected)
             IN  Metric(Round4(tp, nr), Round4(tp, ne),
                        IF tp > 0 THEN Round4(2 * tp * tp, tp * ne + tp * nr) ELSE 0)

\* compute_tag_metrics taking the ground-truth total for the AI total
tag_metrics_totals_mixed(correct, incorrect, missing) ==
    LET n_correct == Len(correct)
        total_ai == n_correct + Len(missing)
        total_ground == n_correct + Len(incorrect)
    IN  IF total_ai = 0 /\ total_ground = 0 THEN Metric(Scale, Scale, Scale)
        ELSE IF total_ai = 0 THEN Metric(Scale, 0, 0)
        ELSE IF total_ground = 0 THEN Metric(0, Scale, 0)
        ELSE Metric(Round4(n_correct, total_ai), Round4(n_correct, total_ground),
                    IF n_correct > 0
                    THEN Round4(2 * n_correct * n_correct,
                                n_correct * total_ground + n_correct * total_ai)
                    ELSE 0)

\* run_tagging_benchmark.py compute_tag_metrics
compute_tag_metrics(correct, incorrect, missing) ==
    LET n_correct == Len(correct)
        n_incorrect == Len(incorrect)
        n_missing == Len(missing)
        total_ai == n_correct + n_incorrect
        total_ground == n_correct + n_missing
    IN  IF total_ai = 0 /\ total_ground = 0 THEN Metric(Scale, Scale, Scale)
        ELSE IF total_ai = 0 THEN Metric(Scale, 0, 0)
        ELSE IF total_ground = 0 THEN Metric(0, Scale, 0)
        ELSE Metric(Round4(n_correct, total_ai), Round4(n_correct, total_ground),
                    IF n_correct > 0
                    THEN Round4(2 * n_correct * n_correct,
                                n_correct * total_ground + n_correct * total_ai)
                    ELSE 0)

----------------------------------------------------------------------------
(* Golden queries and endpoint replies *)

PhotoIds == {"p1", "p2"}

Categories == {"general", "group-based"}

\* most queries in a golden set
MaxQueries == 2

\* token usage and latency reported by every well-formed reply of the model
ReplyInputTokens == 3
ReplyOutputTokens == 1
ReplyTotalMs == 7

\* expected_photo_ids of a golden record
ExpectedLists == {<<>>, <<"p1">>, <<"p1", "p2">>}

GoldenEntry(i, cat, exp) ==
    [question |-> i, category |-> cat, expected_photo_ids |-> exp]

\* golden sets: the i-th record asks question i
GoldenSets(n) ==
    UNION {{[i \in 1..m |-> GoldenEntry(i, f[i][1], f[i][2])] :
                f \in [1..m -> Categories \X ExpectedLists]} : m \in 1..n}

\* What one call of the chat endpoint does: query_chat raises (network error,
\* timeout, non-2xx, malformed JSON), or it returns a JSON body.  A body's
\* "latency" may be null: `"totalMs" in latency` then raises a TypeError after
\* the usage has been read.
ErrorReply ==
    [status |-> "error", photos |-> <<>>, latencyNull |-> FALSE]

OkReply(photos, latencyNull) ==
    [status |-> "ok", photos |-> photos, latencyNull |-> latencyNull]

ReplyPhotos == {<<>>, <<"p1">>, <<"p2">>, <<"p1", "p2">>}

Replies ==
    {ErrorReply} \cup {OkReply(ph, FALSE) : ph \in ReplyPhotos}
                 \cup {OkReply(<<"p1">>, TRUE)}

----------------------------------------------------------------------------
(* run_sweep.py: mean_of, run_combo *)

\* mean_of leaving the zero values (the failed queries) out of the mean
RECURSIVE NonZero(_)
NonZero(values) ==
    IF values = <<>> THEN <<>>
    ELSE IF values[1] = 0 THEN NonZero(Tail(values))
         ELSE <<values[1]>> \o NonZero(Tail(values))

mean_of_nonzero(values, up) ==
    IF NonZero(values) = <<>> THEN 0
    ELSE LET s == SumSeq(NonZero(values))
             n == Len(NonZero(values))
             q == s \div n
             r == s % n
         IN  IF 2 * r > n THEN q + 1
             ELSE IF 2 * r < n THEN q
             ELSE IF up THEN q + 1 ELSE q

\* run_sweep.py / run_baseline.py mean_of: round(sum(values) / len(values), 4),
\* 0.0 for an empty list.  `values` are in units of 1/10000.  When the exact
\* quotient is a decimal tie (x.xxxx5) the binary float decides the direction
\* (round(0.33335, 4) = 0.3333 but round(0.83335, 4) = 0.8334): `up` is that
\* direction, chosen by the caller from both.
mean_of(values, up) ==
    IF values = <<>> THEN 0
    ELSE LET s == SumSeq(values)
             n == Len(values)
             q == s \div n
             r == s % n
         IN  IF 2 * r > n THEN q + 1
             ELSE IF 2 * r < n THEN q
             ELSE IF up THEN q + 1 ELSE q

\* round(x) of a value given in units of 1/10000, to the nearest integer
RoundInt(x) ==
    LET q == x \div Scale
        r == x % Scale
    IN  IF 2 * r > Scale THEN q + 1
        ELSE IF 2 * r < Scale THEN q
        ELSE IF q % 2 = 0 THEN q ELSE q + 1

SelectField(recs, f) == [i \in DOMAIN recs |-> recs[i][f]]

\* the locals of run_combo before its loop (lines 142-145); `sleeps` counts
\* the time.sleep(delay) calls, `events` lists the calls of query_chat and of
\* time.sleep in the order they are made, and `escaped` says that an exception
\* left the loop body (none does: `except Exception` handles all the try
\* block raises)
ComboAcc0 ==
    [per_query |-> <<>>, total_input_tokens |-> 0, total_output_tokens |-> 0,
     latencies |-> <<>>, sleeps |-> 0, events |-> <<>>, escaped |-> FALSE]

\* run_combo's try block (lines 153-175) for one query: the locals after it
\* and whether it raised
combo_try(entry, reply, acc) ==
    IF reply.status = "error" THEN [raised |-> TRUE, acc |-> acc]
    ELSE LET retrieved_ids == reply.photos
             accuracy == sweep_compute_photo_accuracy(retrieved_ids,
                                                      entry.expected_photo_ids)
             acc1 == [acc EXCEPT
                        !.total_input_tokens = @ + ReplyInputTokens,
                        !.total_output_tokens = @ + ReplyOutputTokens]
         IN  IF reply.latencyNull THEN [raised |-> TRUE, acc |-> acc1]
             ELSE [raised |-> FALSE,
                   acc |-> [acc1 EXCEPT
                      !.latencies = Append(@, ReplyTotalMs),
                      !.per_query = Append(@,
                          [question |-> entry.question,
                           category |-> entry.category,
                           expected_count |-> Len(entry.expected_photo_ids),
                           retrieved_count |-> Len(retrieved_ids),
                           precision |-> accuracy.precision,
                           recall |-> accuracy.recall,
                           f1 |-> accuracy.f1,
                           error |-> FALSE])]]

\* an except block that raises itself instead of recording the failure
combo_except_raises(entry, acc) == [acc EXCEPT !.escaped = TRUE]

\* run_combo's except block (lines 176-186)
combo_except(entry, acc) ==
    [acc EXCEPT !.per_query = Append(@,
        [question |-> entry.question,
         category |-> entry.category,
         expected_count |-> Len(entry.expected_photo_ids),
         retrieved_count |-> 0,
         precision |-> 0,
         recall |-> 0,
         f1 |-> 0,
         error |-> TRUE])]

\* one iteration with an except block that re-raises what it caught
combo_query_reraise(golden, reply, i, acc) ==
    LET t == combo_try(golden[i], reply, [acc EXCEPT !.events = Append(@, "call")])
        a == IF t.raised THEN [t.acc EXCEPT !.escaped = TRUE] ELSE t.acc
    IN  IF i < Len(golden) /\ ~a.escaped
        THEN [a EXCEPT !.sleeps = @ + 1, !.events = Append(@, "sleep")]
        ELSE a

\* one iteration that sleeps after every query, the last included
combo_query_always_sleeps(golden, reply, i, acc) ==
    LET t == combo_try(golden[i], reply, [acc EXCEPT !.events = Append(@, "call")])
        a == IF t.raised THEN combo_except(golden[i], t.acc) ELSE t.acc
    IN  [a EXCEPT !.sleeps = @ + 1, !.events = Append(@, "sleep")]

\* one iteration of run_combo's loop (lines 147-189); i counts from 1
combo_query(golden, reply, i, acc) ==
    LET t == combo_try(golden[i], reply, [acc EXCEPT !.events = Append(@, "call")])
        a == IF t.raised THEN combo_except(golden[i], t.acc) ELSE t.acc
    IN  IF i < Len(golden)
        THEN [a EXCEPT !.sleeps = @ + 1, !.events = Append(@, "sleep")]
        ELSE a

RECURSIVE combo_loop(_, _, _, _)
combo_loop(golden, replies, i, acc) ==
    IF i > Len(golden) \/ acc.escaped THEN acc
    ELSE combo_loop(golden, replies, i + 1,
                    combo_query(golden, replies[i], i, acc))

\* the records of `recs` whose category is cat, in order
RECURSIVE OfCategory(_, _)
OfCategory(recs, cat) ==
    IF recs = <<>> THEN <<>>
    ELSE IF recs[1].category = cat
         THEN <<recs[1]>> \o OfCategory(Tail(recs), cat)
         ELSE OfCategory(Tail(recs), cat)

\* run_combo's aggregation (lines 191-224)
combo_aggregate(acc, k, min_score, rel_cutoff, up) ==
    LET per_query == acc.per_query
        cats == {per_query[i].category : i \in DOMAIN per_query}
    IN  [params |-> [k |-> k, minScore |-> min_score, relativeCutoff |-> rel_cutoff],
         overall |-> Metric(mean_of(SelectField(per_query, "precision"), up),
                            mean_of(SelectField(per_query, "recall"), up),
                            mean_of(SelectField(per_query, "f1"), up)),
         by_category |-> [cat \in cats |->
            LET queries == OfCategory(per_query, cat)
            IN  [count |-> Len(queries),
                 precision |-> mean_of(SelectField(queries, "precision"), up),
                 recall |-> mean_of(SelectField(queries, "recall"), up),
                 f1 |-> mean_of(SelectField(queries, "f1"), up)]],
         cost |-> [total_input_tokens |-> acc.total_input_tokens,
                   total_output_tokens |-> acc.total_output_tokens],
         avg_latency_ms |->
            IF acc.latencies = <<>> THEN 0
            ELSE RoundInt(mean_of([i \in DOMAIN acc.latencies |->
                                      acc.latencies[i] * Scale], up)),
         per_query |-> per_query]

\* the calls of query_chat and time.sleep run_combo makes, in order
combo_events(golden, replies) == combo_loop(golden, replies, 1, ComboAcc0).events

\* whether run_combo ends by an exception instead of returning
run_combo_raises(golden, replies) ==
    combo_loop(golden, replies, 1, ComboAcc0).escaped

\* run_sweep.py run_combo: the Combo Result for the replies the endpoint gave
run_combo(golden, replies, k, min_score, rel_cutoff, up) ==
    combo_aggregate(combo_loop(golden, replies, 1, ComboAcc0),
                    k, min_score, rel_cutoff, up)

----------------------------------------------------------------------------
(* run_baseline.py: main and aggregate_results *)

\* score the external judge gives a sample it scores
RagasScore == 8000

\* main's try block (lines 324-342): the raw record of a reply, and whether
\* the block raised instead.  (The context strings feed only the judge.)
baseline_try(entry, reply) ==
    IF reply.status = "error" THEN [raised |-> TRUE, rec |-> <<>>]
    ELSE [raised |-> FALSE,
          rec |-> [question |-> entry.question,
                   category |-> entry.category,
                   expected_photo_ids |-> entry.expected_photo_ids,
                   retrieved_photo_ids |-> reply.photos,
                   response_text |-> "response",
                   \* data.get("latency", {}): the dict, or None for null
                   latency |-> IF reply.latencyNull THEN <<>> ELSE <<ReplyTotalMs>>,
                   usage |-> [inputTokens |-> ReplyInputTokens,
                              outputTokens |-> ReplyOutputTokens]]]

\* main's except block (lines 343-354)
baseline_except(entry) ==
    [question |-> entry.question,
     category |-> entry.category,
     expected_photo_ids |-> entry.expected_photo_ids,
     retrieved_photo_ids |-> <<>>,
     response_text |-> "ERROR",
     latency |-> <<>>,
     usage |-> [inputTokens |-> 0, outputTokens |-> 0]]

\* Step 1 of main (lines 316-357): raw_results
baseline_queries(golden, replies) ==
    [i \in DOMAIN golden |->
        LET t == baseline_try(golden[i], replies[i])
        IN  IF t.raised THEN baseline_except(golden[i]) ELSE t.rec]

\* the calls of query_chat and time.sleep Step 1 makes for the records from
\* the i-th on (lines 316-357), in order; a call is followed by a sleep
\* whether it returned or raised
RECURSIVE baseline_events_from(_, _)
baseline_events_from(golden, i) ==
    IF i > Len(golden) THEN <<>>
    ELSE <<"call">> \o (IF i < Len(golden) THEN <<"sleep">> ELSE <<>>)
                   \o baseline_events_from(golden, i + 1)

baseline_events(golden) == baseline_events_from(golden, 1)

\* the sleeps of Step 1 (lines 356-357)
baseline_sleeps(golden) ==
    Cardinality({i \in DOMAIN golden : i < Len(golden)})

\* Step 2 of main (lines 361-364): photo_accuracy of every raw result
baseline_score(raw) ==
    [i \in DOMAIN raw |->
        baseline_compute_photo_accuracy(raw[i].retrieved_photo_ids,
                                        raw[i].expected_photo_ids)]

\* What the judge does in a run: --skip-ragas leaves it out ("skip"); its
\* imports fail ("import"), its set-up fails ("setup"), evaluate() raises
\* ("evaluate"); or it evaluates ("ok") and gives every sample, for each of
\* the two metrics, a score or NaN (<<>>, stored as None by lines 218-221).
SampleScores ==
    [faithfulness : {<<>>, <<RagasScore>>},
     response_relevancy : {<<>>, <<RagasScore>>}]

JudgeOutcomes(n) ==
    [kind : {"skip", "import", "setup", "evaluate"}, scores : {<<>>}]
        \cup [kind : {"ok"}, scores : [1..n -> SampleScores]]

\* run_ragas_metrics (lines 148-234): <<>> for None, else the per-sample
\* scores
run_ragas_metrics(judge) ==
    IF judge.kind \in {"import", "setup", "evaluate"} THEN <<>>
    ELSE <<judge.scores>>

\* Step 3 with the reset of ragas_enabled (line 380) left out
ragas_enabled_kept(skip_ragas, ragas_scores) == ~skip_ragas

\* Step 3 of main (lines 372-380): ragas_enabled after it; ragas_scores is
\* what run_ragas_metrics returned
ragas_enabled_after(skip_ragas, ragas_scores) ==
    ~skip_ragas /\ ragas_scores # <<>>

\* Step 4 of main up to aggregate_results (lines 383-397): the per-query
\* output records.  A raw result has a "ragas" entry when Step 3 ran the
\* judge and it returned scores (lines 376-377).
baseline_per_query(raw, scores, ragas_enabled, ragas_scores) ==
    [i \in DOMAIN raw |->
        [question |-> raw[i].question,
         category |-> raw[i].category,
         expected_photo_ids |-> raw[i].expected_photo_ids,
         retrieved_photo_ids |-> raw[i].retrieved_photo_ids,
         photo_accuracy |-> scores[i],
         response_text |-> raw[i].response_text,
         latency |-> raw[i].latency,
         usage |-> raw[i].usage,
         ragas |-> IF ragas_enabled /\ ragas_scores # <<>>
                   THEN <<ragas_scores[1][i]>>
                   ELSE <<>>]]

AccField(recs, f) == [i \in DOMAIN recs |-> recs[i].photo_accuracy[f]]

RagasField(recs, f) == [i \in DOMAIN recs |-> recs[i].ragas[1][f][1]]

\* whether aggregate_results raises: a group that aggregates the judge's
\* scores (lines 267, 292) holds a None, and sum() of mean_of raises a
\* TypeError
aggregate_raises(per_query, ragas_enabled) ==
    LET cats == {per_query[i].category : i \in DOMAIN per_query}
        groups == {per_query} \cup {OfCategory(per_query, cat) : cat \in cats}
    IN  \E qs \in groups :
            /\ ragas_enabled /\ qs[1].ragas # <<>>
            /\ \E i \in DOMAIN qs :
                  \/ qs[i].ragas[1].faithfulness = <<>>
                  \/ qs[i].ragas[1].response_relevancy = <<>>

RECURSIVE Latencies(_)
Latencies(recs) ==
    IF recs = <<>> THEN <<>>
    ELSE recs[1].latency \o Latencies(Tail(recs))

\* run_baseline.py aggregate_results (lines 246-297)
aggregate_results(per_query, ragas_enabled, up) ==
    LET cats == {per_query[i].category : i \in DOMAIN per_query}
        lat == Latencies(per_query)
        withRagas(qs) == ragas_enabled /\ qs[1].ragas # <<>>
    IN  [overall |->
            [photo_accuracy |->
                Metric(mean_of(AccField(per_query, "precision"), up),
                       mean_of(AccField(per_query, "recall"), up),
                       mean_of(AccField(per_query, "f1"), up)),
             avg_latency_ms |->
                RoundInt(mean_of([i \in DOMAIN lat |-> lat[i] * Scale], up)),
             total_input_tokens |->
                SumSeq([i \in DOMAIN per_query |-> per_query[i].usage.inputTokens]),
             total_output_tokens |->
                SumSeq([i \in DOMAIN per_query |-> per_query[i].usage.outputTokens]),
             ragas |-> IF withRagas(per_query)
                       THEN <<[faithfulness |->
                                  mean_of(RagasField(per_query, "faithfulness"), up),
                               response_relevancy |->
                                  mean_of(RagasField(per_query, "response_relevancy"), up)]>>
                       ELSE <<>>],
         by_category |-> [cat \in cats |->
            LET queries == OfCategory(per_query, cat)
            IN  [count |-> Len(queries),
                 photo_accuracy |->
                    Metric(mean_of(AccField(queries, "precision"), up),
                           mean_of(AccField(queries, "recall"), up),
                           mean_of(AccField(queries, "f1"), up)),
                 ragas |-> IF withRagas(queries)
                           THEN <<[faithfulness |->
                                      mean_of(RagasField(queries, "faithfulness"), up),
                                   response_relevancy |->
                                      mean_of(RagasField(queries, "response_relevancy"), up)]>>
                           ELSE <<>>]]]

----------------------------------------------------------------------------
(* run_sweep.py: the grid, the checkpoint, main *)

\* values the --k axis may list, and the longest axis
KDomain == {10, 20}
MaxAxisLen == 2
\* --min-score and --rel-cutoff, in hundredths
MinDomain == {50}
RelDomain == {75}

\* process starts in a behaviour
MaxStarts == 2

\* SpecLong: the longest --k axis, with the endpoint answering every query
LongAxisLen == 3

\* the baseline configuration main looks up (lines 338-340)
BaselineK == 10
BaselineMinScore == 50
BaselineRelCutoff == 75

AxisLists(D, n) == UNION {[1..m -> D] : m \in 1..n}

\* the command lines of the model
ArgSets ==
    [resume : BOOLEAN, dry_run : BOOLEAN,
     k_values : AxisLists(KDomain, MaxAxisLen),
     min_values : AxisLists(MinDomain, 1),
     rel_values : AxisLists(RelDomain, 1)]

\* the golden set on disk, and what the endpoint may answer a query of it
SweepGolden ==
    <<GoldenEntry(1, "general", <<"p1", "p2">>),
      GoldenEntry(2, "group-based", <<"p1", "p2">>)>>

SweepReplies == {ErrorReply, OkReply(<<"p1", "p2">>, FALSE)}

Digit(d) == <<"0", "1", "2", "3", "4", "5", "6", "7", "8", "9">>[d + 1]

\* str(n) of an int n >= 0: its decimal digits
RECURSIVE IntStr(_)
IntStr(n) == IF n < 10 THEN <<Digit(n)>> ELSE IntStr(n \div 10) \o <<Digit(n % 10)>>

\* str(x) of a float x >= 0 given in hundredths: the integer part and the
\* fraction digits, shortest form ("0.5", "0.75", "1.0")
FloatStr(x) ==
    LET ip == x \div 100
        fr == x % 100
    IN  IF fr % 10 = 0 THEN IntStr(ip) \o <<".", Digit(fr \div 10)>>
        ELSE IntStr(ip) \o <<".", Digit(fr \div 10), Digit(fr % 10)>>

\* a key that formats the floats with one decimal, the rest cut off
combo_key_one_decimal(k, min_score, rel_cutoff) ==
    <<"k=">> \o IntStr(k)
        \o <<"_min=">> \o IntStr(min_score \div 100)
        \o <<".", Digit((min_score % 100) \div 10)>>
        \o <<"_rel=">> \o IntStr(rel_cutoff \div 100)
        \o <<".", Digit((rel_cutoff % 100) \div 10)>>

\* combo_key (lines 129-130): f"k={k}_min={min_score}_rel={rel_cutoff}"
combo_key(k, min_score, rel_cutoff) ==
    <<"k=">> \o IntStr(k) \o <<"_min=">> \o FloatStr(min_score)
             \o <<"_rel=">> \o FloatStr(rel_cutoff)

\* line 266: the product, k outermost, relativeCutoff innermost
RECURSIVE Flatten(_)
Flatten(ss) == IF ss = <<>> THEN <<>> ELSE ss[1] \o Flatten(Tail(ss))

\* a product that runs relativeCutoff outermost and k innermost
build_combos_rel_outermost(k_values, min_values, rel_values) ==
    Flatten([c \in DOMAIN rel_values |->
        Flatten([b \in DOMAIN min_values |->
            [a \in DOMAIN k_values |->
                <<k_values[a], min_values[b], rel_values[c]>>]])])

build_combos(k_values, min_values, rel_values) ==
    Flatten([a \in DOMAIN k_values |->
        Flatten([b \in DOMAIN min_values |->
            [c \in DOMAIN rel_values |->
                <<k_values[a], min_values[b], rel_values[c]>>]])])

KeyOf(combo) == combo_key(combo[1], combo[2], combo[3])

\* An ordered dict (JSON object) as a sequence of [key, value] entries
DictKeys(d) == {d[i].key : i \in DOMAIN d}

DictValues(d) == [i \in DOMAIN d |-> d[i].value]

DictGet(d, key) == d[CHOOSE i \in DOMAIN d : d[i].key = key].value

\* d[key] = value: in place for a key already present, else appended
DictSet(d, key, value) ==
    IF key \in DictKeys(d)
    THEN [i \in DOMAIN d |-> IF d[i].key = key
                             THEN [key |-> key, value |-> value] ELSE d[i]]
    ELSE Append(d, [key |-> key, value |-> value])

\* the checkpoint file: absent, valid JSON ({"completed": ...}), or partial
\* (opened for writing, hence truncated, and not yet completely written)
AbsentFile == [state |-> "absent", completed |-> <<>>]

PartialFile == [state |-> "partial", completed |-> <<>>]

ValidFile(completed) == [state |-> "valid", completed |-> completed]

\* main line 285: the checkpoint main starts from, for a file json.load accepts
initial_checkpoint(resume, file) ==
    IF resume /\ file.state = "valid" THEN file.completed ELSE <<>>

\* the combos left to run, were the checkpoint's keys not consulted
remaining_unfiltered(combos, done) == combos

\* main line 293: the combos left to run
RECURSIVE remaining_combos(_, _)
remaining_combos(combos, done) ==
    IF combos = <<>> THEN <<>>
    ELSE IF KeyOf(combos[1]) \notin done
         THEN <<combos[1]>> \o remaining_combos(Tail(combos), done)
         ELSE remaining_combos(Tail(combos), done)

\* a save that writes the newest entry alone instead of the whole checkpoint
save_last_entry(ckpt) ==
    ValidFile(IF ckpt = <<>> THEN <<>> ELSE <<ckpt[Len(ckpt)]>>)

\* save_checkpoint (lines 234-237), once json.dump has finished and the file
\* is closed
save_checkpoint(ckpt) == ValidFile(ckpt)

\* list.sort(key=f1, reverse=True) (line 320): stable, equal keys keep their
\* order.  InsertByF1 puts r behind every element whose f1 is not smaller.
RECURSIVE InsertByF1(_, _)
InsertByF1(sorted, r) ==
    IF sorted = <<>> THEN <<r>>
    ELSE IF sorted[1].overall.f1 >= r.overall.f1
         THEN <<sorted[1]>> \o InsertByF1(Tail(sorted), r)
         ELSE <<r>> \o sorted

RECURSIVE SortFrom(_, _)
SortFrom(sorted, rest) ==
    IF rest = <<>> THEN sorted
    ELSE SortFrom(InsertByF1(sorted, rest[1]), Tail(rest))

sort_by_f1(rs) == SortFrom(<<>>, rs)

\* the baseline lookup (lines 338-340): the first result with the baseline's
\* parameters, <<>> when there is none
RECURSIVE find_baseline(_)
find_baseline(rs) ==
    IF rs = <<>> THEN <<>>
    ELSE IF /\ rs[1].params.k = BaselineK
            /\ rs[1].params.minScore = BaselineMinScore
            /\ rs[1].params.relativeCutoff = BaselineRelCutoff
         THEN <<rs[1]>>
         ELSE find_baseline(Tail(rs))

Summary(r) ==
    [params |-> r.params, overall |-> r.overall, by_category |-> r.by_category,
     cost |-> r.cost, avg_latency_ms |-> r.avg_latency_ms]

\* tuning_results.json (lines 361-397) for the sorted results
sweep_output(a, sorted) ==
    [total_combos |-> Len(build_combos(a.k_values, a.min_values, a.rel_values)),
     best |-> Summary(sorted[1]),
     baseline |-> [i \in DOMAIN find_baseline(sorted) |->
                      [params |-> find_baseline(sorted)[i].params,
                       overall |-> find_baseline(sorted)[i].overall]],
     all_results |-> [i \in DOMAIN sorted |-> Summary(sorted[i])]]

----------------------------------------------------------------------------
(* run_sweep.py main as a process: its steps, and its interruption *)

NoArgs ==
    [resume |-> FALSE, dry_run |-> FALSE, k_values |-> <<>>,
     min_values |-> <<>>, rel_values |-> <<>>]

FileKeys(file) == IF file.state = "valid" THEN DictKeys(file.completed) ELSE {}

\* What is recorded about the current process (or the last, once it ended):
\* its command line, the persisted checkpoint at its start, the keys run_combo
\* was called for so far, the replies met by the call whose result is not yet
\* saved, how it ended, and for an interrupted process whether a checkpoint
\* write was under way and the completed keys the file did not hold; `wire`
\* lists the calls of query_chat and time.sleep the process made, in order,
\* and `at` is the position at which it was interrupted ("ranking": the loop
\* had ended and the results file was not yet opened).
Hist0 ==
    [args |-> NoArgs, startState |-> "absent", startKeys |-> {},
     evaluated |-> <<>>, replies |-> <<>>, ended |-> "none", lost |-> {},
     midWrite |-> FALSE, wire |-> <<>>, at |-> "none"]

\* the history of a process started with command line a
HistAt(a, file, how) ==
    [Hist0 EXCEPT !.args = a, !.startState = file.state,
                  !.startKeys = FileKeys(file), !.ended = how]

\* the locals of main when no process runs
IdleLocals ==
    /\ args' = NoArgs
    /\ checkpoint' = <<>>
    /\ already_done' = {}
    /\ results' = <<>>
    /\ combos_remaining' = <<>>
    /\ idx' = 0
    /\ result' = <<>>

\* keys of the combos completed in the running process or loaded by it
CompletedKeys == DictKeys(checkpoint)

\* python run_sweep.py --dry-run ...: lines 278-282
DryRun(a) ==
    /\ pc = "idle" /\ starts < MaxStarts
    /\ a.dry_run
    /\ starts' = starts + 1
    /\ hist' = HistAt(a, ckptFile, "dry")
    /\ UNCHANGED <<ckptFile, outFile, pc, args, checkpoint, already_done, results,
                   combos_remaining, idx, result>>
    /\ UNCHANGED <<evalVars, metricVars, threshVars, keyVars>>

\* python run_sweep.py --resume ... on a checkpoint file that is not valid
\* JSON: json.load raises (line 230) and the process ends
LoadFails(a) ==
    /\ pc = "idle" /\ starts < MaxStarts
    /\ ~a.dry_run /\ a.resume /\ ckptFile.state = "partial"
    /\ starts' = starts + 1
    /\ hist' = HistAt(a, ckptFile, "loadfail")
    /\ UNCHANGED <<ckptFile, outFile, pc, args, checkpoint, already_done, results,
                   combos_remaining, idx, result>>
    /\ UNCHANGED <<evalVars, metricVars, threshVars, keyVars>>

\* main lines 245-293: a start that reaches the loop
Start(a) ==
    /\ pc = "idle" /\ starts < MaxStarts
    /\ ~a.dry_run
    /\ ~(a.resume /\ ckptFile.state = "partial")
    /\ starts' = starts + 1
    /\ args' = a
    /\ checkpoint' = initial_checkpoint(a.resume, ckptFile)
    /\ already_done' = DictKeys(checkpoint')
    /\ results' = DictValues(checkpoint')
    /\ combos_remaining' =
          remaining_combos(build_combos(a.k_values, a.min_values, a.rel_values),
                           already_done')
    /\ idx' = 0
    /\ pc' = "loop"
    /\ hist' = HistAt(a, ckptFile, "running")
    /\ UNCHANGED <<ckptFile, outFile, result>>
    /\ UNCHANGED <<evalVars, metricVars, threshVars, keyVars>>

\* main lines 295-307: the head of a loop iteration and the call of run_combo.
\* `result` is what the call returns for the replies the endpoint gives its
\* queries, or that an exception leaves it.
RunCombo(replies, up) ==
    /\ pc = "loop" /\ idx < Len(combos_remaining)
    /\ LET c == combos_remaining[idx + 1]
           raised == run_combo_raises(SweepGolden, replies)
       IN  /\ result' = <<[raised |-> raised,
                           value |-> IF raised THEN <<>>
                                     ELSE run_combo(SweepGolden, replies,
                                                    c[1], c[2], c[3], up)]>>
           /\ hist' = [hist EXCEPT !.evaluated = Append(@, KeyOf(c)),
                                   !.replies = replies,
                                   !.wire = @ \o combo_events(SweepGolden, replies)]
    /\ pc' = "run"
    /\ UNCHANGED <<ckptFile, outFile, args, checkpoint, already_done, results,
                   combos_remaining, idx, starts>>
    /\ UNCHANGED <<evalVars, metricVars, threshVars, keyVars>>

\* main lines 307-315: run_combo returns, its result is appended to results
\* and put into the in-memory checkpoint.  An exception leaving run_combo
\* ends the process (main has no handler).
StoreResult ==
    /\ pc = "run"
    /\ IF result[1].raised
       THEN /\ pc' = "idle"
            /\ IdleLocals
            /\ hist' = [hist EXCEPT !.ended = "aborted"]
       ELSE /\ results' = Append(results, result[1].value)
            /\ checkpoint' = DictSet(checkpoint,
                                     KeyOf(combos_remaining[idx + 1]),
                                     result[1].value)
            /\ pc' = "save"
            /\ UNCHANGED <<args, already_done, combos_remaining, idx, result,
                           hist>>
    /\ UNCHANGED <<ckptFile, outFile, starts>>
    /\ UNCHANGED <<evalVars, metricVars, threshVars, keyVars>>

\* save_checkpoint line 236: open(CHECKPOINT_PATH, "w") truncates the file
SaveOpen ==
    /\ pc = "save"
    /\ ckptFile' = PartialFile
    /\ pc' = "dump"
    /\ UNCHANGED <<outFile, args, checkpoint, already_done, results,
                   combos_remaining, idx, result, starts, hist>>
    /\ UNCHANGED <<evalVars, metricVars, threshVars, keyVars>>

\* save_checkpoint line 237 and the end of the loop body: the dump completes
SaveDump ==
    /\ pc = "dump"
    /\ ckptFile' = save_checkpoint(checkpoint)
    /\ idx' = idx + 1
    /\ pc' = "loop"
    /\ hist' = [hist EXCEPT !.replies = <<>>]
    /\ result' = <<>>
    /\ UNCHANGED <<outFile, args, checkpoint, already_done, results,
                   combos_remaining, starts>>
    /\ UNCHANGED <<evalVars, metricVars, threshVars, keyVars>>

\* a main that removes the checkpoint once the loop has ended, before it
\* opens the results file
Finish_unlinks_first ==
    /\ pc = "loop" /\ idx = Len(combos_remaining)
    /\ results' = sort_by_f1(results)
    /\ ckptFile' = AbsentFile
    /\ outFile' = <<>>
    /\ pc' = "writing"
    /\ UNCHANGED <<args, checkpoint, already_done, combos_remaining,
                   idx, result, starts, hist>>
    /\ UNCHANGED <<evalVars, metricVars, threshVars, keyVars>>

\* main lines 319-399: the ranking, and open(output_path, "w"), which
\* truncates tuning_results.json (outFile is <<>> while the file holds no
\* complete JSON document)
Finish ==
    /\ pc = "loop" /\ idx = Len(combos_remaining)
    /\ results' = sort_by_f1(results)
    /\ outFile' = <<>>
    /\ pc' = "writing"
    /\ UNCHANGED <<ckptFile, args, checkpoint, already_done, combos_remaining,
                   idx, result, starts, hist>>
    /\ UNCHANGED <<evalVars, metricVars, threshVars, keyVars>>

\* main lines 400-403: json.dump of the output completes
WriteResults ==
    /\ pc = "writing"
    /\ outFile' = <<sweep_output(args, results)>>
    /\ pc' = "written"
    /\ UNCHANGED <<ckptFile, args, checkpoint, already_done, results,
                   combos_remaining, idx, result, starts, hist>>
    /\ UNCHANGED <<evalVars, metricVars, threshVars, keyVars>>

\* main lines 405-408: the checkpoint is removed and the process ends
Cleanup ==
    /\ pc = "written"
    /\ ckptFile' = AbsentFile
    /\ pc' = "idle"
    /\ IdleLocals
    /\ hist' = [hist EXCEPT !.ended = "finished", !.evaluated = <<>>]
    /\ UNCHANGED <<outFile, starts>>
    /\ UNCHANGED <<evalVars, metricVars, threshVars, keyVars>>

\* the process is interrupted (killed, power loss) at any point
Crash ==
    /\ pc # "idle"
    /\ pc' = "idle"
    /\ IdleLocals
    /\ hist' = [hist EXCEPT !.ended = "crashed",
                            !.evaluated = <<>>,
                            !.replies = <<>>,
                            !.midWrite = (pc = "dump"),
                            !.at = IF pc = "loop" /\ idx = Len(combos_remaining)
                                   THEN "ranking" ELSE pc,
                            !.lost = CompletedKeys \ FileKeys(ckptFile)]
    /\ UNCHANGED <<ckptFile, outFile, starts>>
    /\ UNCHANGED <<evalVars, metricVars, threshVars, keyVars>>

SweepInit ==
    /\ ckptFile = AbsentFile
    /\ outFile = <<>>
    /\ pc = "idle"
    /\ args = NoArgs
    /\ checkpoint = <<>>
    /\ already_done = {}
    /\ results = <<>>
    /\ combos_remaining = <<>>
    /\ idx = 0
    /\ result = <<>>
    /\ starts = 0
    /\ hist = Hist0

Next ==
    \/ \E a \in ArgSets : DryRun(a)
    \/ \E a \in ArgSets : LoadFails(a)
    \/ \E a \in ArgSets : Start(a)
    \/ \E replies \in [DOMAIN SweepGolden -> SweepReplies], up \in BOOLEAN :
          RunCombo(replies, up)
    \/ StoreResult
    \/ SaveOpen
    \/ SaveDump
    \/ Finish
    \/ WriteResults
    \/ Cleanup
    \/ Crash

----------------------------------------------------------------------------
(* SpecEval: both evaluators on a drawn golden set and drawn replies *)

ERunCombo ==
    /\ eCombo = <<>>
    /\ \E up \in BOOLEAN :
          eCombo' = <<run_combo(eGolden, eReplies, BaselineK, BaselineMinScore,
                                BaselineRelCutoff, up)>>
    /\ eWire' = [eWire EXCEPT !.sweep = combo_events(eGolden, eReplies)]
    /\ UNCHANGED <<eGolden, eReplies, bPc, bRaw, bJudge, bOut>>
    /\ UNCHANGED <<sweepVars, metricVars, threshVars, keyVars>>

\* run_baseline.py main, Step 1
BQueries ==
    /\ bPc = "start"
    /\ bRaw' = baseline_queries(eGolden, eReplies)
    /\ bPc' = "queried"
    /\ eWire' = [eWire EXCEPT !.baseline = baseline_events(eGolden)]
    /\ UNCHANGED <<eGolden, eReplies, eCombo, bJudge, bOut>>
    /\ UNCHANGED <<sweepVars, metricVars, threshVars, keyVars>>

\* run_baseline.py main, Steps 2 and 3: what the judge does in this run
BJudge ==
    /\ bPc = "queried"
    /\ \E judge \in JudgeOutcomes(Len(bRaw)) : bJudge' = <<judge>>
    /\ bPc' = "judged"
    /\ UNCHANGED <<eGolden, eReplies, eCombo, bRaw, bOut, eWire>>
    /\ UNCHANGED <<sweepVars, metricVars, threshVars, keyVars>>

\* run_baseline.py main, Step 4 and the write of baseline.json; an exception
\* of aggregate_results ends the process before the write
BFinish ==
    /\ bPc = "judged"
    /\ LET skip_ragas == bJudge[1].kind = "skip"
           ragas_scores == IF skip_ragas THEN <<>> ELSE run_ragas_metrics(bJudge[1])
           ragas_enabled == ragas_enabled_after(skip_ragas, ragas_scores)
           per_query == baseline_per_query(bRaw, baseline_score(bRaw),
                                           ragas_enabled, ragas_scores)
       IN  IF aggregate_raises(per_query, ragas_enabled)
           THEN bPc' = "aborted" /\ UNCHANGED bOut
           ELSE /\ \E up \in BOOLEAN :
                     LET agg == aggregate_results(per_query, ragas_enabled, up)
                     IN  bOut' = <<[ragas_enabled |-> ragas_enabled,
                                    overall |-> agg.overall,
                                    by_category |-> agg.by_category,
                                    per_query |-> per_query]>>
                /\ bPc' = "saved"
    /\ UNCHANGED <<eGolden, eReplies, eCombo, bRaw, bJudge, eWire>>
    /\ UNCHANGED <<sweepVars, metricVars, threshVars, keyVars>>

\* no call made yet by either evaluator
NoWire == [sweep |-> <<>>, baseline |-> <<>>]

EvalIdle ==
    /\ eGolden = <<>> /\ eReplies = <<>> /\ eCombo = <<>>
    /\ bPc = "off" /\ bRaw = <<>> /\ bJudge = <<>> /\ bOut = <<>>
    /\ eWire = NoWire

EvalInit ==
    /\ eGolden \in GoldenSets(MaxQueries)
    /\ eReplies \in [DOMAIN eGolden -> Replies]
    /\ eCombo = <<>>
    /\ bPc = "start" /\ bRaw = <<>> /\ bJudge = <<>> /\ bOut = <<>>
    /\ eWire = NoWire

NextEval == ERunCombo \/ BQueries \/ BJudge \/ BFinish

----------------------------------------------------------------------------
(* SpecMetrics: the metric functions on drawn inputs *)

MetricsIdle == mIn = <<>> /\ mOut = <<>>

MetricsInit ==
    /\ mIn \in [retrieved : SeqsUpTo(PhotoIds, MaxIds),
                expected : SeqsUpTo(PhotoIds, MaxIds),
                correct : SeqsUpTo({"a"}, MaxTags),
                incorrect : SeqsUpTo({"b"}, MaxTags),
                missing : SeqsUpTo({"c"}, MaxTags)]
    /\ mOut = <<>>

Compute ==
    /\ mOut = <<>>
    /\ mOut' = <<[sweep |-> sweep_compute_photo_accuracy(mIn.retrieved, mIn.expected),
                  baseline |-> baseline_compute_photo_accuracy(mIn.retrieved,
                                                               mIn.expected),
                  tag |-> compute_tag_metrics(mIn.correct, mIn.incorrect,
                                              mIn.missing)]>>
    /\ UNCHANGED mIn
    /\ UNCHANGED <<sweepVars, evalVars, threshVars, keyVars>>

NextMetrics == Compute

----------------------------------------------------------------------------
(* run_tagging_benchmark.py: analyze_thresholds *)

\* most photos in a labeled corpus, and most AI tags of a photo
MaxPhotos == 2
MaxAiTags == 1

\* tag names as the AI and the labelers write them, and str.lower of them
AiNames == {"Cat", "dog"}
LabelNames == {"cat", "Dog"}
Lower(t) == CASE t = "Cat" -> "cat" [] t = "Dog" -> "dog" [] OTHER -> t

\* confidences of AI tags, in hundredths
ConfDomain == {50, 90}

TagCategories == {"object", "scene"}

AiTags == [tag : AiNames, confidence : ConfDomain, category : TagCategories]

\* a record of the ground-truth file; the label lists are read only through
\* set comprehensions (lines 134-135), so they are carried as sets
Entries ==
    [correct_tags : SUBSET LabelNames, incorrect_tags : SUBSET LabelNames,
     ai_tags : SeqsUpTo(AiTags, MaxAiTags)]

Corpora == UNION {[1..n -> Entries] : n \in 1..MaxPhotos}

\* a classification that takes every unlabeled AI tag for an incorrect one
classify_unlabeled_wrong(entry) ==
    LET correct_set == {Lower(t) : t \in entry.correct_tags}
        tags == entry.ai_tags
    IN  [i \in DOMAIN tags |->
            [tag |-> tags[i].tag, confidence |-> tags[i].confidence,
             category |-> tags[i].category,
             is_correct |-> Lower(tags[i].tag) \in correct_set]]

\* lines 133-153, one entry: the samples of its AI tags, in order; an AI tag
\* in neither label set gives none
RECURSIVE classify_from(_, _, _)
classify_from(tags, correct_set, incorrect_set) ==
    IF tags = <<>> THEN <<>>
    ELSE LET ai_tag == tags[1]
             tag_lower == Lower(ai_tag.tag)
             rest == classify_from(Tail(tags), correct_set, incorrect_set)
             sample(is_correct) ==
                 [tag |-> ai_tag.tag, confidence |-> ai_tag.confidence,
                  category |-> ai_tag.category, is_correct |-> is_correct]
         IN  IF tag_lower \in correct_set THEN <<sample(TRUE)>> \o rest
             ELSE IF tag_lower \in incorrect_set THEN <<sample(FALSE)>> \o rest
             ELSE rest

classify(entry) ==
    classify_from(entry.ai_tags,
                  {Lower(t) : t \in entry.correct_tags},
                  {Lower(t) : t \in entry.incorrect_tags})

\* lines 132-153: tag_samples of the whole corpus
RECURSIVE collect_samples(_)
collect_samples(ground_truth) ==
    IF ground_truth = <<>> THEN <<>>
    ELSE classify(ground_truth[1]) \o collect_samples(Tail(ground_truth))

\* line 156: round(t * 0.05, 2) for t in range(0, 21), in hundredths
NumThresholds == 21
ThresholdStep == 5
thresholds == [t \in 1..NumThresholds |-> (t - 1) * ThresholdStep]

NumCorrect(samples) == Cardinality({i \in DOMAIN samples : samples[i].is_correct})

\* a comparison that leaves out the observations exactly at the threshold
above_strict(samples, thresh) ==
    LET Over(x) == x.confidence > thresh IN SelectSeq(samples, Over)

\* lines 161 and 209: the samples whose confidence >= thresh
above_threshold(samples, thresh) ==
    LET AtLeast(x) == x.confidence >= thresh IN SelectSeq(samples, AtLeast)

\* lines 173-192 and 215-227: the entry of a threshold with samples above it
sweep_entry(thresh, above, total_correct) ==
    LET correct == NumCorrect(above)
        incorrect == Len(above) - correct
    IN  [threshold |-> thresh,
         total_tags |-> Len(above),
         correct |-> correct,
         incorrect |-> incorrect,
         precision |-> Round4(correct, Len(above)),
         recall |-> IF total_correct > 0 THEN Round4(correct, total_correct) ELSE 0,
         f1 |-> IF correct > 0
                THEN Round4(2 * correct, Len(above) + total_correct)
                ELSE 0]

\* lines 160-171: the overall entry of a threshold with nothing above it
overall_empty_entry(thresh) ==
    [threshold |-> thresh, total_tags |-> 0, correct |-> 0, incorrect |-> 0,
     precision |-> 0, f1 |-> 0]

\* lines 210-213: the per-category entry of a threshold with nothing above it
category_empty_entry(thresh) ==
    [threshold |-> thresh, total_tags |-> 0, correct |-> 0, incorrect |-> 0,
     precision |-> 0, recall |-> 0, f1 |-> 0]

\* lines 158-192: the overall sweep
overall_sweep_of(tag_samples) ==
    [t \in DOMAIN thresholds |->
        LET above == above_threshold(tag_samples, thresholds[t])
        IN  IF above = <<>> THEN overall_empty_entry(thresholds[t])
            ELSE sweep_entry(thresholds[t], above, NumCorrect(tag_samples))]

\* lines 203-226: the sweep of one category
category_sweep_of(tag_samples, cat) ==
    LET InCat(x) == x.category = cat
        cat_samples == SelectSeq(tag_samples, InCat)
        total_correct_in_cat == NumCorrect(cat_samples)
    IN  [t \in DOMAIN thresholds |->
            LET above == above_threshold(cat_samples, thresholds[t])
            IN  IF above = <<>> THEN category_empty_entry(thresholds[t])
                ELSE sweep_entry(thresholds[t], above, total_correct_in_cat)]

\* a max that keeps the last of the entries with the highest f1
max_by_f1_last(sweep) ==
    sweep[CHOOSE i \in DOMAIN sweep :
             /\ \A j \in DOMAIN sweep : sweep[j].f1 <= sweep[i].f1
             /\ \A j \in DOMAIN sweep : j > i => sweep[j].f1 < sweep[i].f1]

\* max(sweep, key=f1) (lines 195, 227): the first of the entries with the
\* highest f1
max_by_f1(sweep) ==
    sweep[CHOOSE i \in DOMAIN sweep :
             /\ \A j \in DOMAIN sweep : sweep[j].f1 <= sweep[i].f1
             /\ \A j \in DOMAIN sweep : j < i => sweep[j].f1 < sweep[i].f1]

\* sorted(...) of a list of numbers
RECURSIVE InsertSorted(_, _)
InsertSorted(sorted, x) ==
    IF sorted = <<>> THEN <<x>>
    ELSE IF sorted[1] <= x THEN <<sorted[1]>> \o InsertSorted(Tail(sorted), x)
         ELSE <<x>> \o sorted

RECURSIVE SortedFrom(_, _)
SortedFrom(sorted, rest) ==
    IF rest = <<>> THEN sorted
    ELSE SortedFrom(InsertSorted(sorted, rest[1]), Tail(rest))

\* lines 229-256: the distribution of the confidences on one side; the
\* values are in units of 1/10000, <<>> stands for None
distribution(tag_samples, side) ==
    LET OnSide(x) == x.is_correct = side
        chosen == SelectSeq(tag_samples, OnSide)
        confs == SortedFrom(<<>>, [i \in DOMAIN chosen |-> chosen[i].confidence])
        n == Len(confs)
    IN  [count |-> n,
         min |-> IF n = 0 THEN <<>> ELSE <<confs[1] * 100>>,
         max |-> IF n = 0 THEN <<>> ELSE <<confs[n] * 100>>,
         mean |-> IF n = 0 THEN <<>> ELSE <<Round4(SumSeq(confs), 100 * n)>>,
         median |-> IF n = 0 THEN <<>> ELSE <<confs[(n \div 2) + 1] * 100>>]

\* run_tagging_benchmark.py analyze_thresholds
analyze_thresholds(ground_truth) ==
    LET tag_samples == collect_samples(ground_truth)
        overall_sweep == overall_sweep_of(tag_samples)
        categories == {tag_samples[i].category : i \in DOMAIN tag_samples}
        per_category_sweep ==
            [cat \in categories |-> category_sweep_of(tag_samples, cat)]
    IN  [total_tag_samples |-> Len(tag_samples),
         total_correct |-> NumCorrect(tag_samples),
         total_incorrect |->
            Cardinality({i \in DOMAIN tag_samples : ~tag_samples[i].is_correct}),
         overall_sweep |-> overall_sweep,
         best_overall_threshold |-> max_by_f1(overall_sweep),
         per_category_sweep |-> per_category_sweep,
         best_per_category_threshold |->
            [cat \in categories |-> max_by_f1(per_category_sweep[cat])],
         confidence_distribution |->
            [correct |-> distribution(tag_samples, TRUE),
             incorrect |-> distribution(tag_samples, FALSE)]]

----------------------------------------------------------------------------
(* run_tagging_benchmark.py: categorize_tags and the by_category of main *)

\* a list of the elements of a set (the label lists of an entry, of which
\* only the lengths are used)
AsList(S) == CHOOSE q \in [1..Cardinality(S) -> S] : Range(q) = S

\* categorize_tags lines 92-94: the category of the last AI tag of the entry
\* whose lowercased name is `name`, "unknown" when there is none (lines 99,
\* 103)
tag_to_category(entry, name) ==
    LET hits == {i \in DOMAIN entry.ai_tags : Lower(entry.ai_tags[i].tag) = name}
    IN  IF hits = {} THEN "unknown"
        ELSE entry.ai_tags[CHOOSE i \in hits : \A j \in hits : j <= i].category

\* categorize_tags (lines 85-110) for an entry without missing_tags: the
\* labeled tags by the category of their AI tag
categorize_tags(entry) ==
    LET cat_of(t) == tag_to_category(entry, Lower(t))
        cats == {cat_of(t) : t \in entry.correct_tags \cup entry.incorrect_tags}
    IN  [cat \in cats |->
            [correct |-> AsList({t \in entry.correct_tags : cat_of(t) = cat}),
             incorrect |-> AsList({t \in entry.incorrect_tags : cat_of(t) = cat}),
             missing |-> <<>>]]

\* main lines 414-422: by_category of a per-photo result
photo_by_category(entry) ==
    LET by_cat == categorize_tags(entry)
    IN  [cat \in DOMAIN by_cat |->
            compute_tag_metrics(by_cat[cat].correct, by_cat[cat].incorrect,
                                by_cat[cat].missing)]

\* main lines 484-488: the per-photo metrics of a category, in photo order
RECURSIVE cat_photo_metrics(_, _)
cat_photo_metrics(ground_truth, cat) ==
    IF ground_truth = <<>> THEN <<>>
    ELSE LET m == photo_by_category(ground_truth[1])
         IN  (IF cat \in DOMAIN m /\ cat # "missing_from_ai"
              THEN <<m[cat]>> ELSE <<>>)
             \o cat_photo_metrics(Tail(ground_truth), cat)

\* main lines 449-496: by_category.  cat_agg (lines 450-463) counts, per AI
\* category, the AI tags labeled correct and incorrect, by the classification
\* analyze_thresholds uses; lines 468-482 give a category its precision and
\* put the precision in its recall and f1; lines 484-496 then replace recall
\* and f1 of every category that has per-photo metrics by their mean.
\* photo_count is <<>> for a category without the field.
tagging_by_category(ground_truth, up) ==
    LET tag_samples == collect_samples(ground_truth)
        cats == {tag_samples[i].category : i \in DOMAIN tag_samples}
    IN  [cat \in cats |->
            LET InCat(x) == x.category = cat
                mine == SelectSeq(tag_samples, InCat)
                correct == NumCorrect(mine)
                total == Len(mine)
                prec == Round4(correct, total)
                metrics_list == cat_photo_metrics(ground_truth, cat)
                replaced == metrics_list # <<>>
            IN  [tag_count |-> total,
                 correct |-> correct,
                 incorrect |-> total - correct,
                 precision |-> prec,
                 recall |-> IF replaced
                            THEN mean_of(SelectField(metrics_list, "recall"), up)
                            ELSE prec,
                 f1 |-> IF replaced
                        THEN mean_of(SelectField(metrics_list, "f1"), up)
                        ELSE prec,
                 photo_count |-> IF replaced THEN <<Len(metrics_list)>> ELSE <<>>]]

----------------------------------------------------------------------------
(* SpecThresh: analyze_thresholds and main's by_category on a drawn corpus *)

ThreshIdle == tIn = <<>> /\ tOut = <<>> /\ tCat = <<>>

ThreshInit ==
    /\ tIn \in Corpora
    /\ tOut = <<>>
    /\ tCat = <<>>

Analyze ==
    /\ tOut = <<>>
    /\ tOut' = <<analyze_thresholds(tIn)>>
    /\ UNCHANGED <<tIn, tCat>>
    /\ UNCHANGED <<sweepVars, evalVars, metricVars, keyVars>>

\* main, Steps 1 to 3
Summarize(up) ==
    /\ tCat = <<>>
    /\ tCat' = <<tagging_by_category(tIn, up)>>
    /\ UNCHANGED <<tIn, tOut>>
    /\ UNCHANGED <<sweepVars, evalVars, metricVars, keyVars>>

NextThresh == Analyze \/ \E up \in BOOLEAN : Summarize(up)

----------------------------------------------------------------------------
(* SpecKeys: combo_key on two drawn configurations *)

\* parameter values a command line may give: k, and the two floats in
\* hundredths
KeyKs == {1, 10, 11, 110}
KeyFloats == {5, 50, 55, 100, 505}

Configs == [k : KeyKs, minScore : KeyFloats, relativeCutoff : KeyFloats]

KeysIdle == kIn = <<>> /\ kOut = <<>>

KeysInit ==
    /\ kIn \in Configs \X Configs
    /\ kOut = <<>>

MakeKeys ==
    /\ kOut = <<>>
    /\ kOut' = [i \in 1..2 |->
                  combo_key(kIn[i].k, kIn[i].minScore, kIn[i].relativeCutoff)]
    /\ UNCHANGED kIn
    /\ UNCHANGED <<sweepVars, evalVars, metricVars, threshVars>>

NextKeys == MakeKeys

----------------------------------------------------------------------------
(* Specifications *)

Init == SweepInit /\ EvalIdle /\ MetricsIdle /\ ThreshIdle /\ KeysIdle

Spec == Init /\ [][Next]_vars

\* the sweep driver when no process is interrupted (no checkpoint file is
\* then left half-written, so no load fails).  main is a sequential program:
\* once run_combo is called the process goes on to its next step.
NextFair ==
    \/ \E a \in ArgSets : DryRun(a)
    \/ \E a \in ArgSets : Start(a)
    \/ \E replies \in [DOMAIN SweepGolden -> SweepReplies], up \in BOOLEAN :
          RunCombo(replies, up)
    \/ StoreResult
    \/ SaveOpen
    \/ SaveDump
    \/ Finish
    \/ WriteResults
    \/ Cleanup

SpecFair ==
    /\ Init
    /\ [][NextFair]_vars
    /\ WF_vars(StoreResult) /\ WF_vars(SaveOpen) /\ WF_vars(SaveDump)
    /\ WF_vars(Finish) /\ WF_vars(WriteResults) /\ WF_vars(Cleanup)

InitEval == EvalInit /\ SweepInit /\ MetricsIdle /\ ThreshIdle /\ KeysIdle

\* the sweep driver with --k axes of up to LongAxisLen values, no dry runs,
\* and an endpoint that answers every query with the photos expected
LongArgSets ==
    [resume : BOOLEAN, dry_run : {FALSE},
     k_values : AxisLists(KDomain, LongAxisLen),
     min_values : AxisLists(MinDomain, 1),
     rel_values : AxisLists(RelDomain, 1)]

NextLong ==
    \/ \E a \in LongArgSets : LoadFails(a)
    \/ \E a \in LongArgSets : Start(a)
    \/ RunCombo([i \in DOMAIN SweepGolden |-> OkReply(<<"p1", "p2">>, FALSE)], FALSE)
    \/ StoreResult
    \/ SaveOpen
    \/ SaveDump
    \/ Finish
    \/ WriteResults
    \/ Cleanup
    \/ Crash

SpecLong == Init /\ [][NextLong]_vars

\* SpecOrder: the last process of a behaviour, on a grid of up to two values per axis, started on
\* a checkpoint file left by earlier interrupted sweeps, with an endpoint
\* that answers every query with the photos expected
OrderMinDomain == {50, 60}
OrderRelDomain == {75, 80}

\* most entries of the checkpoint file a process of SpecOrder starts on
MaxLoaded == 1

OrderArgSets ==
    [resume : BOOLEAN, dry_run : {FALSE},
     k_values : AxisLists(KDomain, 2),
     min_values : AxisLists(OrderMinDomain, 2),
     rel_values : AxisLists(OrderRelDomain, 2)]

OrderReplies == [i \in DOMAIN SweepGolden |-> OkReply(<<"p1", "p2">>, FALSE)]

\* the checkpoint entry an earlier sweep saved for a combo
SavedEntry(c) ==
    [key |-> KeyOf(c),
     value |-> run_combo(SweepGolden, OrderReplies, c[1], c[2], c[3], FALSE)]

\* checkpoint files holding up to MaxLoaded entries
OrderFiles ==
    {AbsentFile} \cup
    {ValidFile([i \in DOMAIN cs |-> SavedEntry(cs[i])]) :
        cs \in {t \in SeqsUpTo(KDomain \X OrderMinDomain \X OrderRelDomain,
                                MaxLoaded) :
                   /\ t # <<>>
                   /\ \A i, j \in DOMAIN t : t[i] = t[j] => i = j}}

InitOrder ==
    /\ ckptFile \in OrderFiles
    /\ outFile = <<>>
    /\ pc = "idle"
    /\ args = NoArgs
    /\ checkpoint = <<>>
    /\ already_done = {}
    /\ results = <<>>
    /\ combos_remaining = <<>>
    /\ idx = 0
    /\ result = <<>>
    /\ starts = MaxStarts - 1
    /\ hist = Hist0
    /\ EvalIdle /\ MetricsIdle /\ ThreshIdle /\ KeysIdle

NextOrder ==
    \/ \E a \in OrderArgSets : Start(a)
    \/ RunCombo(OrderReplies, FALSE)
    \/ StoreResult
    \/ SaveOpen
    \/ SaveDump
    \/ Finish
    \/ WriteResults
    \/ Cleanup

SpecOrder == InitOrder /\ [][NextOrder]_vars

SpecEval == InitEval /\ [][NextEval]_vars

InitMetrics == MetricsInit /\ SweepInit /\ EvalIdle /\ ThreshIdle /\ KeysIdle

SpecMetrics == InitMetrics /\ [][NextMetrics]_vars

InitThresh == ThreshInit /\ SweepInit /\ EvalIdle /\ MetricsIdle /\ KeysIdle

SpecThresh == InitThresh /\ [][NextThresh]_vars

InitKeys == KeysInit /\ SweepInit /\ EvalIdle /\ MetricsIdle /\ ThreshIdle

SpecKeys == InitKeys /\ [][NextKeys]_vars

----------------------------------------------------------------------------
(* Properties of the metric functions (SpecMetrics) *)

One == Metric(Scale, Scale, Scale)

\* the policy table of the Set Accuracy Metric over the sets R (retrieved) and
\* E (expected); the harmonic mean of tp/|R| and tp/|E| is 2 tp / (|R| + |E|)
PhotoPolicy(R, E) ==
    LET tp == Cardinality(R \cap E)
    IN  CASE E = {} /\ R = {} -> One
          [] E = {} /\ R # {} -> Metric(0, Scale, 0)
          [] E # {} /\ R = {} -> Metric(Scale, 0, 0)
          [] E # {} /\ R # {} ->
                Metric(Round4(tp, Cardinality(R)), Round4(tp, Cardinality(E)),
                       Round4(2 * tp, Cardinality(R) + Cardinality(E)))

\* C6: for every pair of identifier lists, compute_photo_accuracy returns the
\* row of the policy table that matches the sets of ids (each value rounded to
\* four decimals), and the copies of run_sweep.py and run_baseline.py agree.
C6_PolicyTable ==
    mOut # <<>> =>
        /\ mOut[1].sweep = PhotoPolicy(Range(mIn.retrieved), Range(mIn.expected))
        /\ mOut[1].baseline = mOut[1].sweep

\* a duplicated id in the retrieved list, half of the expected ids found
C6_Witness ==
    /\ mOut # <<>>
    /\ mIn.retrieved = <<"p1", "p1">>
    /\ mIn.expected = <<"p1", "p2">>
    /\ mOut[1].sweep = Metric(10000, 5000, 6667)
    /\ mOut[1].baseline = Metric(10000, 5000, 6667)

\* C7 as stated: accuracy(retrieved, expected) gives accuracy({}, {}) = (1,1,1),
\* accuracy({}, {x}) = (0,1,0) and accuracy({x}, {}) = (1,0,0).
C7_AsStated ==
    mOut # <<>> =>
        /\ (mIn.retrieved = <<>> /\ mIn.expected = <<>>
                => mOut[1].sweep = One /\ mOut[1].baseline = One)
        /\ (mIn.retrieved = <<>> /\ Len(mIn.expected) = 1
                => /\ mOut[1].sweep = Metric(0, Scale, 0)
                   /\ mOut[1].baseline = Metric(0, Scale, 0))
        /\ (Len(mIn.retrieved) = 1 /\ mIn.expected = <<>>
                => /\ mOut[1].sweep = Metric(Scale, 0, 0)
                   /\ mOut[1].baseline = Metric(Scale, 0, 0))

\* C7 (amended): accuracy({}, {}) = (1,1,1); nothing retrieved of one expected
\* id, accuracy({}, {x}), is the total miss (1,0,0); one id retrieved where
\* none is expected, accuracy({x}, {}), is the false positive (0,1,0).
C7_Boundary ==
    mOut # <<>> =>
        /\ (mIn.retrieved = <<>> /\ mIn.expected = <<>>
                => mOut[1].sweep = One /\ mOut[1].baseline = One)
        /\ (mIn.retrieved = <<>> /\ Len(mIn.expected) = 1
                => /\ mOut[1].sweep = Metric(Scale, 0, 0)
                   /\ mOut[1].baseline = Metric(Scale, 0, 0))
        /\ (Len(mIn.retrieved) = 1 /\ mIn.expected = <<>>
                => /\ mOut[1].sweep = Metric(0, Scale, 0)
                   /\ mOut[1].baseline = Metric(0, Scale, 0))

\* nothing retrieved, one id expected
C7_Witness ==
    /\ mOut # <<>>
    /\ mIn.retrieved = <<>>
    /\ mIn.expected = <<"p1">>
    /\ mOut[1].sweep = Metric(Scale, 0, 0)

\* the tag policy table over the list lengths c, i, m
TagPolicy(c, i, m) ==
    LET totalAI == c + i
        totalGround == c + m
    IN  CASE totalAI = 0 /\ totalGround = 0 -> One
          [] totalAI = 0 /\ totalGround > 0 -> Metric(Scale, 0, 0)
          [] totalAI > 0 /\ totalGround = 0 -> Metric(0, Scale, 0)
          [] totalAI > 0 /\ totalGround > 0 ->
                Metric(Round4(c, totalAI), Round4(c, totalGround),
                       Round4(2 * c, totalAI + totalGround))

\* C8: compute_tag_metrics returns the row of the tag policy table for the
\* lengths of its three lists; ([a],[],[]) gives (1,1,1), ([],[b],[]) gives
\* (0,1,0) and ([],[],[c]) gives (1,0,0).
C8_TagPolicy ==
    mOut # <<>> =>
        /\ mOut[1].tag = TagPolicy(Len(mIn.correct), Len(mIn.incorrect),
                                   Len(mIn.missing))
        /\ (Len(mIn.correct) = 1 /\ mIn.incorrect = <<>> /\ mIn.missing = <<>>
                => mOut[1].tag = One)
        /\ (mIn.correct = <<>> /\ Len(mIn.incorrect) = 1 /\ mIn.missing = <<>>
                => mOut[1].tag = Metric(0, Scale, 0))
        /\ (mIn.correct = <<>> /\ mIn.incorrect = <<>> /\ Len(mIn.missing) = 1
                => mOut[1].tag = Metric(Scale, 0, 0))

\* one correct, one incorrect and two missing tags
C8_Witness ==
    /\ mOut # <<>>
    /\ Len(mIn.correct) = 1 /\ Len(mIn.incorrect) = 1 /\ Len(mIn.missing) = 2
    /\ mOut[1].tag = Metric(5000, 3333, 4000)

InUnit(m) ==
    /\ m.precision \in 0..Scale
    /\ m.recall \in 0..Scale
    /\ m.f1 \in 0..Scale

\* C17: for all retrieved and expected identifier lists the precision, recall
\* and f1 of compute_photo_accuracy lie in [0, 1], and when both lists hold
\* the same non-empty set of ids the result is (1, 1, 1).
C17_UnitRange ==
    mOut # <<>> =>
        /\ InUnit(mOut[1].sweep)
        /\ InUnit(mOut[1].baseline)
        /\ (mIn.retrieved # <<>> /\ Range(mIn.retrieved) = Range(mIn.expected))
              => mOut[1].sweep = One /\ mOut[1].baseline = One

\* the same two ids retrieved and expected, in different orders
C17_Witness ==
    /\ mOut # <<>>
    /\ mIn.retrieved = <<"p2", "p1">>
    /\ mIn.expected = <<"p1", "p2">>
    /\ mOut[1].sweep = One

----------------------------------------------------------------------------
(* Properties of the two evaluators (SpecEval) *)

Zero == Metric(0, 0, 0)

\* the queries whose try block raised in run_combo / in run_baseline's main
SweepFailed == {i \in DOMAIN eGolden :
                   combo_try(eGolden[i], eReplies[i], ComboAcc0).raised}

BaselineFailed == {i \in DOMAIN eGolden :
                      baseline_try(eGolden[i], eReplies[i]).raised}

\* C5 as stated: a query whose request fails is scored precision = recall =
\* f1 = 0 whatever its expected set, by run_combo and by run_baseline's main.
C5_AsStated ==
    /\ eCombo # <<>> =>
          \A i \in SweepFailed :
             /\ eCombo[1].per_query[i].precision = 0
             /\ eCombo[1].per_query[i].recall = 0
             /\ eCombo[1].per_query[i].f1 = 0
    /\ bOut # <<>> =>
          \A i \in BaselineFailed : bOut[1].per_query[i].photo_accuracy = Zero

\* C23: a query recorded as failed adds nothing to the combo's cost and
\* latency.  Whatever the point at which its processing failed, the combo's
\* total_input_tokens, total_output_tokens and latency samples are those of
\* the queries that did not fail, and the failed query's record has
\* retrieved_count = 0 and carries the error.
C23_AsStated ==
    eCombo # <<>> =>
       LET ok == DOMAIN eGolden \ SweepFailed
       IN  /\ eCombo[1].cost.total_input_tokens
                 = ReplyInputTokens * Cardinality(ok)
           /\ eCombo[1].cost.total_output_tokens
                 = ReplyOutputTokens * Cardinality(ok)
           /\ eCombo[1].avg_latency_ms = IF ok = {} THEN 0 ELSE ReplyTotalMs
           /\ \A i \in SweepFailed :
                 /\ eCombo[1].per_query[i].retrieved_count = 0
                 /\ eCombo[1].per_query[i].error

\* the calls and sleeps of a batch of n queries with a sleep after every call
\* but the last
RECURSIVE DelayedBatch(_)
DelayedBatch(n) ==
    IF n = 0 THEN <<>>
    ELSE IF n = 1 THEN <<"call">>
    ELSE <<"call", "sleep">> \o DelayedBatch(n - 1)

\* C24: in a batch of n queries, run_combo's and the baseline's alike, one
\* delay follows each of the first n-1 calls, whether the call succeeded or
\* failed, and none follows the last call: max(n-1, 0) delays in all.
C24_DelayBetweenCalls ==
    /\ eCombo # <<>> => eWire.sweep = DelayedBatch(Len(eGolden))
    /\ bPc \notin {"off", "start"} => eWire.baseline = DelayedBatch(Len(eGolden))

C24_Witness ==
    /\ eCombo # <<>> /\ bPc = "queried"
    /\ Len(eGolden) = MaxQueries
    /\ eReplies[1].status = "error"
    /\ eReplies[MaxQueries].status = "ok"
    /\ Cardinality({i \in DOMAIN eWire.sweep : eWire.sweep[i] = "sleep"})
          = MaxQueries - 1
    /\ eWire.baseline[Len(eWire.baseline)] = "call"

\* m is the arithmetic mean of values rounded to the nearest 1/10000
IsMean(m, values) ==
    LET n == Len(values)
        d == m * n - SumSeq(values)
    IN  IF n = 0 THEN m = 0 ELSE 2 * d <= n /\ -2 * d <= n

IsMeanMetric(m, recs) ==
    /\ IsMean(m.precision, SelectField(recs, "precision"))
    /\ IsMean(m.recall, SelectField(recs, "recall"))
    /\ IsMean(m.f1, SelectField(recs, "f1"))

BaselineAcc(recs) == [i \in DOMAIN recs |-> recs[i].photo_accuracy]

\* C9: the overall precision, recall and f1 of a Combo Result, and those of
\* each category, are the arithmetic means (rounded to four decimals) of the
\* per-query values of the queries in that scope, failed queries included; the
\* same holds for aggregate_results of the baseline; per-query f1 values 1.0
\* and 0.0 give the overall f1 0.5.
C9_MacroAverage ==
    /\ eCombo # <<>> =>
          LET r == eCombo[1]
          IN  /\ IsMeanMetric(r.overall, r.per_query)
              /\ \A cat \in DOMAIN r.by_category :
                    /\ IsMeanMetric(r.by_category[cat], OfCategory(r.per_query, cat))
                    /\ r.by_category[cat].count = Len(OfCategory(r.per_query, cat))
              /\ DOMAIN r.by_category = {eGolden[i].category : i \in DOMAIN eGolden}
              /\ SelectField(r.per_query, "f1") \in {<<Scale, 0>>, <<0, Scale>>}
                    => r.overall.f1 = 5000
    /\ bOut # <<>> =>
          LET o == bOut[1]
          IN  /\ IsMeanMetric(o.overall.photo_accuracy, BaselineAcc(o.per_query))
              /\ \A cat \in DOMAIN o.by_category :
                    IsMeanMetric(o.by_category[cat].photo_accuracy,
                                 BaselineAcc(OfCategory(o.per_query, cat)))
              /\ DOMAIN o.by_category = {eGolden[i].category : i \in DOMAIN eGolden}

\* two queries of one category: both expected ids retrieved (f1 1.0), and a
\* failed request (f1 0.0); pooled counts would give f1 0.8
C9_Witness ==
    /\ eCombo # <<>>
    /\ Len(eGolden) = 2
    /\ eGolden[1].category = eGolden[2].category
    /\ eGolden[1].expected_photo_ids = <<"p1", "p2">>
    /\ eReplies[1] = OkReply(<<"p1", "p2">>, FALSE)
    /\ eGolden[2].expected_photo_ids = <<"p1">>
    /\ eReplies[2] = ErrorReply
    /\ SelectField(eCombo[1].per_query, "f1") = <<Scale, 0>>
    /\ eCombo[1].overall.f1 = 5000
    /\ eCombo[1].by_category[eGolden[1].category].f1 = 5000

----------------------------------------------------------------------------
(* Properties of the sweep driver (Spec, SpecLong) *)

GridKeys(a) ==
    {KeyOf(c) : c \in Range(build_combos(a.k_values, a.min_values, a.rel_values))}

Count(x, seq) == Cardinality({i \in DOMAIN seq : seq[i] = x})

\* C1: a process started with --resume on a persisted checkpoint whose keys S
\* are configurations of the current grid calls run_combo exactly once for
\* every grid configuration not in S and never for one in S, and once its loop
\* has ended the persisted checkpoint holds every configuration of the grid.
C1_AsStated ==
    (/\ pc = "written"
     /\ args.resume
     /\ hist.startState = "valid"
     /\ hist.startKeys \subseteq GridKeys(args))
    => /\ \A key \in GridKeys(args) :
             Count(key, hist.evaluated) = IF key \in hist.startKeys THEN 0 ELSE 1
       /\ GridKeys(args) \subseteq FileKeys(ckptFile)

\* C2 as stated: whatever the flags of a start, no configuration whose key the
\* persisted checkpoint held at that start is evaluated by the process.
C2_AsStated == Range(hist.evaluated) \cap hist.startKeys = {}

\* C2 (amended): a process started with --resume loads the persisted
\* checkpoint, leaves every configuration whose key it holds out of the combos
\* to run, and evaluates none of them.
C2_ResumeSkips ==
    hist.args.resume =>
        /\ Range(hist.evaluated) \cap hist.startKeys = {}
        /\ pc # "idle" =>
              /\ already_done = hist.startKeys
              /\ \A i \in DOMAIN combos_remaining :
                    KeyOf(combos_remaining[i]) \notin hist.startKeys

\* a resumed process whose checkpoint held one configuration of its grid has
\* evaluated another and finished its loop
C2_Witness ==
    /\ pc = "written"
    /\ args.resume
    /\ hist.startKeys \cap GridKeys(args) # {}
    /\ hist.evaluated # <<>>

\* C3: the whole in-memory checkpoint is on disk after every combo completion
\* and before the next combo starts; outside a checkpoint write the persisted
\* checkpoint lacks at most one of the combos completed in the process or
\* loaded by it (the one whose result awaits its save), also when the process
\* is interrupted there.
C3_Durability ==
    /\ (pc \in {"loop", "written"} /\ hist.evaluated # <<>>)
          => ckptFile = ValidFile(checkpoint)
    /\ pc \in {"loop", "written"} => CompletedKeys \subseteq FileKeys(ckptFile)
    /\ pc = "save" =>
          /\ CompletedKeys \ FileKeys(ckptFile)
                \subseteq {hist.evaluated[Len(hist.evaluated)]}
          /\ \A i \in DOMAIN checkpoint :
                checkpoint[i].key \in FileKeys(ckptFile)
                /\ checkpoint[i].key # hist.evaluated[Len(hist.evaluated)]
                   => DictGet(ckptFile.completed, checkpoint[i].key)
                         = checkpoint[i].value
    /\ (hist.ended = "crashed" /\ ~hist.midWrite) => Cardinality(hist.lost) <= 1

\* the first process was interrupted after its second combo completed and
\* before the save: the file holds the first combo and lacks the second
C3_Witness ==
    /\ starts = 1
    /\ hist.ended = "crashed"
    /\ ~hist.midWrite
    /\ Cardinality(hist.lost) = 1
    /\ Cardinality(FileKeys(ckptFile)) = 1

\* C4: whichever queries fail, run_combo returns (no exception ends the
\* process), its result holds one record per golden query, in input order,
\* the record of a failed query and no other carrying the error, and the
\* driver goes on to save the combo.
C4_FailuresInline ==
    /\ hist.ended # "aborted"
    /\ pc = "save" =>
          LET r == results[Len(results)]
          IN  /\ Len(r.per_query) = Len(SweepGolden)
              /\ \A i \in DOMAIN SweepGolden :
                    /\ r.per_query[i].question = SweepGolden[i].question
                    /\ r.per_query[i].category = SweepGolden[i].category
                    /\ r.per_query[i].error = (hist.replies[i].status = "error")

\* the first combo met a failure of its first query and was saved; the second
\* combo has been evaluated with a failure of its second query
C4_Witness ==
    /\ pc = "save"
    /\ ~args.resume
    /\ idx = 1
    /\ Len(results) = 2
    /\ results[1].per_query[1].error /\ ~results[1].per_query[2].error
    /\ hist.replies[1].status = "ok" /\ hist.replies[2].status = "error"
    /\ FileKeys(ckptFile) = {hist.evaluated[1]}

Perms(n) == {f \in [1..n -> 1..n] : \A i, j \in 1..n : f[i] = f[j] => i = j}

Permute(rs, f) == [i \in DOMAIN rs |-> rs[f[i]]]

Descending(rs) ==
    \A i, j \in DOMAIN rs : i < j => rs[i].overall.f1 >= rs[j].overall.f1

\* C10 as stated: the results are ranked by f1 descending, best is the first,
\* and the ranking is the same for every order in which the same results are
\* visited.
C10_AsStated ==
    pc = "written" =>
        /\ Descending(results)
        /\ outFile[1].best = Summary(results[1])
        /\ \A f \in Perms(Len(results)) :
              sort_by_f1(Permute(results, f)) = results

\* C11: whenever no sweep process runs (and one has run), the checkpoint file
\* exists if and only if the last sweep did not run to completion.
C11_AsStated ==
    (pc = "idle" /\ hist.ended \in {"finished", "crashed", "aborted", "loadfail"})
    => ((ckptFile.state # "absent") <=> (hist.ended # "finished"))

AllKeys == {combo_key(k, m, r) : k \in KDomain, m \in MinDomain, r \in RelDomain}

\* RUNNING: run_combo is under way for the combo whose key is `key`
Running(key) ==
    /\ pc = "run"
    /\ KeyOf(combos_remaining[idx + 1]) = key

\* C12: when no process is interrupted, every combo whose evaluation starts
\* is eventually recorded in the persisted checkpoint, whichever of its
\* queries fail.
C12_ReachesDone ==
    \A key \in AllKeys : Running(key) ~> (key \in FileKeys(ckptFile))

\* a combo all of whose queries failed is in the persisted checkpoint
C12_Witness ==
    /\ pc = "loop"
    /\ ~args.resume
    /\ idx = 1
    /\ \A i \in DOMAIN results[1].per_query : results[1].per_query[i].error
    /\ KeyOf(combos_remaining[1]) \in FileKeys(ckptFile)
    /\ DictGet(ckptFile.completed, KeyOf(combos_remaining[1])) = results[1]

\* C19: after a crash at any point of a sweep, a checkpoint write under way
\* included, the checkpoint file can be loaded (it is absent or holds valid
\* JSON) and lacks none of the entries persisted before the interrupted write:
\* of the combos completed or loaded by the process at most the one being
\* written is missing from it.
C19_AsStated ==
    (pc = "idle" /\ hist.ended = "crashed")
    => /\ ckptFile.state # "partial"
       /\ Cardinality(hist.lost) <= 1

\* C25: over a sweep a delay occurs between every two consecutive requests to
\* the endpoint, the last request of one combo and the first request of the
\* next included: no call of query_chat directly follows another.
C25_AsStated ==
    \A i \in 1..(Len(hist.wire) - 1) :
       ~(hist.wire[i] = "call" /\ hist.wire[i + 1] = "call")

\* the keys of the entries of all_results, in rank order
ResultKeys(out) ==
    [i \in DOMAIN out.all_results |->
        combo_key(out.all_results[i].params.k,
                  out.all_results[i].params.minScore,
                  out.all_results[i].params.relativeCutoff)]

\* C21: the all_results written by a sweep holds exactly one entry per
\* distinct configuration of the current grid: none for a configuration
\* outside the grid, none missing, none twice, and as many entries as the
\* reported total_combos.
C21_AsStated ==
    pc = "written" =>
       LET keys == ResultKeys(outFile[1])
       IN  /\ Range(keys) = GridKeys(args)
           /\ \A key \in GridKeys(args) : Count(key, keys) = 1
           /\ Len(keys) = outFile[1].total_combos

\* C22: within one process run_combo is called at most once per distinct
\* configuration key, whatever the axes list (a value listed twice included),
\* so that no result recorded in the checkpoint during the run is evaluated
\* again or overwritten later in the run.
C22_AsStated ==
    \A i, j \in DOMAIN hist.evaluated :
       hist.evaluated[i] = hist.evaluated[j] => i = j

\* the loop of main has ended and tuning_results.json is not yet written
BeforeResults ==
    \/ pc = "loop" /\ idx = Len(combos_remaining)
    \/ pc = "writing"

\* C26: the checkpoint file is removed only after tuning_results.json has
\* been written: at the step that removes it the results file holds the
\* output of this run; and while the run is past its loop with the results
\* not yet written, or if it is interrupted there, the checkpoint file exists
\* and holds every completed combo.
C26_WriteBeforeUnlink ==
    /\ [](BeforeResults =>
            ckptFile = ValidFile(checkpoint) /\ CompletedKeys # {})
    /\ []((hist.ended = "crashed" /\ hist.at \in {"ranking", "writing"}) =>
            ckptFile.state = "valid" /\ hist.lost = {})
    /\ [][(ckptFile.state # "absent" /\ ckptFile'.state = "absent") =>
            (pc = "written" /\ outFile = <<sweep_output(args, results)>>)]_vars

\* a process was interrupted while writing the results of its two combos,
\* and the checkpoint file holds both
C26_Witness ==
    /\ pc = "idle"
    /\ hist.ended = "crashed"
    /\ hist.at = "writing"
    /\ outFile = <<>>
    /\ Cardinality(FileKeys(ckptFile)) = 2

\* the p-th configuration (p from 1) of the grid of command line a when k
\* runs outermost and relativeCutoff innermost
GridAt(a, p) ==
    LET nm == Len(a.min_values)
        nr == Len(a.rel_values)
        q == p - 1
    IN  <<a.k_values[(q \div (nm * nr)) + 1],
          a.min_values[((q \div nr) % nm) + 1],
          a.rel_values[(q % nr) + 1]>>

GridInOrder(a) ==
    [p \in 1..(Len(a.k_values) * Len(a.min_values) * Len(a.rel_values)) |->
        KeyOf(GridAt(a, p))]

\* the keys a process is to evaluate, in order: the grid in order without the
\* keys it loaded
ExpectedVisits ==
    LET done == IF args.resume THEN hist.startKeys ELSE {}
    IN  SelectSeq(GridInOrder(args), LAMBDA key : key \notin done)

\* C27: the configurations a process evaluates are the grid's product in the
\* order k outermost, minScore, relativeCutoff innermost, with the already
\* completed configurations removed and the order of the others kept: what
\* has been evaluated so far is a prefix of that list, and all of it once the
\* loop has ended.
C27_VisitOrder ==
    pc # "idle" =>
       /\ Len(hist.evaluated) <= Len(ExpectedVisits)
       /\ hist.evaluated = SubSeq(ExpectedVisits, 1, Len(hist.evaluated))
       /\ (BeforeResults \/ pc = "written") => hist.evaluated = ExpectedVisits

\* a resumed process on a grid of two values per axis, one configuration of
\* which was loaded, has evaluated the other seven
C27_Witness ==
    /\ pc = "written"
    /\ args.resume
    /\ args.k_values = <<20, 10>>
    /\ Len(args.min_values) = 2 /\ args.min_values[1] # args.min_values[2]
    /\ Len(args.rel_values) = 2 /\ args.rel_values[1] # args.rel_values[2]
    /\ hist.startKeys \subseteq GridKeys(args)
    /\ Len(hist.evaluated) = 7

----------------------------------------------------------------------------
(* Properties of analyze_thresholds (SpecThresh) *)

\* the observations of a corpus: <<photo, position of the AI tag>>
Observations(corpus) ==
    UNION {{<<p, i>> : i \in DOMAIN corpus[p].ai_tags} : p \in DOMAIN corpus}

ObsTag(corpus, o) == corpus[o[1]].ai_tags[o[2]]

LabeledCorrect(corpus, o) ==
    \E t \in corpus[o[1]].correct_tags : Lower(t) = Lower(ObsTag(corpus, o).tag)

LabeledIncorrect(corpus, o) ==
    \E t \in corpus[o[1]].incorrect_tags : Lower(t) = Lower(ObsTag(corpus, o).tag)

Labeled(corpus) ==
    {o \in Observations(corpus) :
        LabeledCorrect(corpus, o) \/ LabeledIncorrect(corpus, o)}

\* the scopes of a result: the overall curve and the curve of every category
Curves(out) ==
    {out.overall_sweep}
        \cup {out.per_category_sweep[cat] : cat \in DOMAIN out.per_category_sweep}

MaxF1(sweep) ==
    CHOOSE m \in {sweep[t].f1 : t \in DOMAIN sweep} :
        \A t \in DOMAIN sweep : sweep[t].f1 <= m

LowestMaximizer(sweep) ==
    CHOOSE x \in {sweep[t].threshold : t \in DOMAIN sweep} :
        \E t \in DOMAIN sweep :
            /\ sweep[t].threshold = x
            /\ sweep[t].f1 = MaxF1(sweep)
            /\ \A u \in DOMAIN sweep :
                  sweep[u].f1 = MaxF1(sweep) => sweep[u].threshold >= x

\* C13: for the overall corpus and for each category the selected best
\* threshold is the smallest axis point whose f1 is the maximum of the
\* scope's curve, and the selected entry is the curve's entry at that point.
C13_LowestMaximizer ==
    tOut # <<>> =>
        LET out == tOut[1]
        IN  /\ out.best_overall_threshold.threshold
                  = LowestMaximizer(out.overall_sweep)
            /\ out.best_overall_threshold \in Range(out.overall_sweep)
            /\ \A cat \in DOMAIN out.per_category_sweep :
                  /\ out.best_per_category_threshold[cat].threshold
                        = LowestMaximizer(out.per_category_sweep[cat])
                  /\ out.best_per_category_threshold[cat]
                        \in Range(out.per_category_sweep[cat])

\* an incorrect tag at 0.5 and a correct one at 0.9: every axis point from
\* 0.55 to 0.90 has the maximal f1 and 0.55 is selected
C13_Witness ==
    /\ tOut # <<>>
    /\ tOut[1].best_overall_threshold.threshold = 55
    /\ tOut[1].best_overall_threshold.f1 = Scale
    /\ tOut[1].overall_sweep[19].f1 = Scale
    /\ tOut[1].overall_sweep[11].f1 < Scale

\* C14: in every scope the entry of axis point t counts exactly the labeled
\* observations of the scope whose confidence is >= t; when every labeled
\* observation has confidence 0.5 the entry at 0.50 counts them all and the
\* entry at 0.55 counts none.
C14_Inclusive ==
    tOut # <<>> =>
        LET out == tOut[1]
            AtLeast(t, scope) ==
                {o \in scope : ObsTag(tIn, o).confidence >= thresholds[t]}
        IN  /\ \A t \in DOMAIN thresholds :
                  /\ out.overall_sweep[t].threshold = thresholds[t]
                  /\ out.overall_sweep[t].total_tags
                        = Cardinality(AtLeast(t, Labeled(tIn)))
                  /\ \A cat \in DOMAIN out.per_category_sweep :
                        out.per_category_sweep[cat][t].total_tags
                           = Cardinality(AtLeast(t,
                                {o \in Labeled(tIn) :
                                    ObsTag(tIn, o).category = cat}))
            /\ (\A o \in Labeled(tIn) : ObsTag(tIn, o).confidence = 50)
                  => /\ out.overall_sweep[11].threshold = 50
                     /\ out.overall_sweep[11].total_tags = Cardinality(Labeled(tIn))
                     /\ out.overall_sweep[12].threshold = 55
                     /\ out.overall_sweep[12].total_tags = 0

\* two labeled observations, both of confidence 0.5
C14_Witness ==
    /\ tOut # <<>>
    /\ Cardinality(Labeled(tIn)) = 2
    /\ \A o \in Labeled(tIn) : ObsTag(tIn, o).confidence = 50
    /\ tOut[1].overall_sweep[11].total_tags = 2
    /\ tOut[1].overall_sweep[12].total_tags = 0

\* C15: every entry of every curve reports precision, recall and f1, with
\* precision = correct/|above| (0 if above is empty), recall =
\* correct/total_correct_in_scope (0 if that is 0) and f1 their harmonic mean
\* or 0, and the overall curve carries the fields of the per-category curves.
C15_AsStated ==
    tOut # <<>> =>
        LET out == tOut[1]
            Sound(e, total_correct) ==
                /\ {"precision", "recall", "f1"} \subseteq DOMAIN e
                /\ e.precision = IF e.total_tags = 0 THEN 0
                                 ELSE Round4(e.correct, e.total_tags)
                /\ e.recall = IF total_correct = 0 THEN 0
                              ELSE Round4(e.correct, total_correct)
                /\ e.f1 = IF e.correct = 0 THEN 0
                          ELSE Round4(2 * e.correct, e.total_tags + total_correct)
        IN  \A t \in DOMAIN thresholds :
                /\ Sound(out.overall_sweep[t], out.overall_sweep[1].correct)
                /\ \A cat \in DOMAIN out.per_category_sweep :
                      /\ Sound(out.per_category_sweep[cat][t],
                               out.per_category_sweep[cat][1].correct)
                      /\ DOMAIN out.per_category_sweep[cat][t]
                            = DOMAIN out.overall_sweep[t]

\* the corpus without its unlabeled AI tags
StripUnlabeled(corpus) ==
    [p \in DOMAIN corpus |->
        [corpus[p] EXCEPT !.ai_tags =
            LET Kept(a) ==
                   \E t \in corpus[p].correct_tags \cup corpus[p].incorrect_tags :
                       Lower(t) = Lower(a.tag)
            IN  SelectSeq(@, Kept)]]

\* C16: an AI tag in neither label set of its photo contributes nothing: the
\* result is the result for the corpus without the unlabeled tags;
\* total_tag_samples counts the labeled observations and equals
\* total_correct + total_incorrect, the distributions count the same
\* observations, and at every point of every curve
\* correct + incorrect = total_tags.
C16_UnlabeledExcluded ==
    tOut # <<>> =>
        LET out == tOut[1]
        IN  /\ out = analyze_thresholds(StripUnlabeled(tIn))
            /\ out.total_tag_samples = Cardinality(Labeled(tIn))
            /\ out.total_correct
                  = Cardinality({o \in Labeled(tIn) : LabeledCorrect(tIn, o)})
            /\ out.total_tag_samples = out.total_correct + out.total_incorrect
            /\ out.confidence_distribution.correct.count = out.total_correct
            /\ out.confidence_distribution.incorrect.count = out.total_incorrect
            /\ \A sweep \in Curves(out) : \A t \in DOMAIN sweep :
                  sweep[t].correct + sweep[t].incorrect = sweep[t].total_tags

\* a labeled and an unlabeled AI tag: one sample
C16_Witness ==
    /\ tOut # <<>>
    /\ Cardinality(Observations(tIn)) = 2
    /\ Cardinality(Labeled(tIn)) = 1
    /\ tOut[1].total_tag_samples = 1
    /\ tOut[1].total_incorrect = 1

\* C28: in main's by_category the recall and the f1 reported for a tag
\* category stand in for nothing but its precision: for every category both
\* equal the category's precision.
C28_AsStated ==
    tCat # <<>> =>
       \A cat \in DOMAIN tCat[1] :
          /\ tCat[1][cat].recall = tCat[1][cat].precision
          /\ tCat[1][cat].f1 = tCat[1][cat].precision

\* a curve over the labeled observations `scope`: total_tags, correct and
\* recall never increase from an axis point to the next, and at threshold 0.00
\* the whole scope is counted, with recall = 1 if it has a correct observation
MonotoneCurve(sweep, scope) ==
    /\ \A t \in 1..(Len(sweep) - 1) :
          /\ sweep[t + 1].total_tags <= sweep[t].total_tags
          /\ sweep[t + 1].correct <= sweep[t].correct
          /\ "recall" \in DOMAIN sweep[t] /\ "recall" \in DOMAIN sweep[t + 1]
          /\ sweep[t + 1].recall <= sweep[t].recall
    /\ sweep[1].threshold = 0
    /\ sweep[1].total_tags = Cardinality(scope)
    /\ (\E o \in scope : LabeledCorrect(tIn, o)) => sweep[1].recall = Scale

\* C29: along every curve, overall and per category, total_tags, correct and
\* recall never increase from one axis point to the next, and at threshold
\* 0.00 every labeled observation of the scope is counted, with recall = 1
\* when the scope has a correct observation.
C29_AsStated ==
    tOut # <<>> =>
       /\ MonotoneCurve(tOut[1].overall_sweep, Labeled(tIn))
       /\ \A cat \in DOMAIN tOut[1].per_category_sweep :
             MonotoneCurve(tOut[1].per_category_sweep[cat],
                           {o \in Labeled(tIn) : ObsTag(tIn, o).category = cat})

\* the observations of a correctness label: correct, or incorrect (labeled
\* incorrect and not correct)
OfLabel(side) ==
    {o \in Labeled(tIn) : LabeledCorrect(tIn, o) = side}

\* the k-th smallest confidence of a non-empty set of observations
KthConf(P, k) ==
    CHOOSE v \in {ObsTag(tIn, o).confidence : o \in P} :
        /\ Cardinality({o \in P : ObsTag(tIn, o).confidence < v}) < k
        /\ k <= Cardinality({o \in P : ObsTag(tIn, o).confidence <= v})

\* the median of the confidences of P, in units of 1/10000
MedianConf(P) ==
    LET n == Cardinality(P)
    IN  IF n % 2 = 1 THEN KthConf(P, (n + 1) \div 2) * 100
        ELSE (KthConf(P, n \div 2) + KthConf(P, (n \div 2) + 1)) * 50

\* C30: for each correctness label the summary's median is the median of the
\* label's confidences (the middle value of the sorted confidences for an odd
\* count, the mean of the two middle values for an even count), and count,
\* min and max are the size, the smallest and the largest of them.
C30_AsStated ==
    tOut # <<>> =>
       \A side \in BOOLEAN :
          LET P == OfLabel(side)
              d == IF side THEN tOut[1].confidence_distribution.correct
                   ELSE tOut[1].confidence_distribution.incorrect
          IN  /\ d.count = Cardinality(P)
              /\ P # {} =>
                    /\ d.min = <<KthConf(P, 1) * 100>>
                    /\ d.max = <<KthConf(P, Cardinality(P)) * 100>>
                    /\ d.median = <<MedianConf(P)>>

----------------------------------------------------------------------------
(* Properties of combo_key (SpecKeys) *)

\* C18: two configurations receive the same checkpoint key if and only if
\* their three parameter values are equal.
C18_Canonical ==
    kOut # <<>> => ((kOut[1] = kOut[2]) <=> (kIn[1] = kIn[2]))

\* 0.5 and 0.55, 0.5 and 0.05: configurations that differ in a late digit of
\* one float have different keys
C18_Witness ==
    /\ kOut # <<>>
    /\ kIn[1] = [k |-> 10, minScore |-> 50, relativeCutoff |-> 55]
    /\ kIn[2] = [k |-> 10, minScore |-> 55, relativeCutoff |-> 55]
    /\ kOut[1] = <<"k=", "1", "0", "_min=", "0", ".", "5", "_rel=", "0", ".", "5", "5">>
    /\ kOut[1] # kOut[2]

----------------------------------------------------------------------------
(* Properties of the baseline's judge handling (SpecEval) *)

\* C20: when the judge fails to import, to set up or to evaluate, the
\* baseline run completes and writes its results with ragas_enabled = false;
\* no per-query record, no category summary and not the overall summary holds
\* a judge score, and the photo accuracy is what the raw results give.
C20_JudgeFailure ==
    (bPc \in {"saved", "aborted"}
        /\ bJudge[1].kind \in {"import", "setup", "evaluate"})
    => /\ bPc = "saved"
       /\ bOut # <<>>
       /\ LET o == bOut[1]
          IN  /\ o.ragas_enabled = FALSE
              /\ \A i \in DOMAIN o.per_query : o.per_query[i].ragas = <<>>
              /\ o.overall.ragas = <<>>
              /\ \A cat \in DOMAIN o.by_category : o.by_category[cat].ragas = <<>>
              /\ Len(o.per_query) = Len(eGolden)
              /\ BaselineAcc(o.per_query) = baseline_score(bRaw)
              /\ IsMeanMetric(o.overall.photo_accuracy, BaselineAcc(o.per_query))

\* evaluate() raised in a run of two queries, and baseline.json is written
C20_Witness ==
    /\ bPc = "saved"
    /\ bJudge[1].kind = "evaluate"
    /\ Len(bRaw) = 2
    /\ bOut # <<>>
    /\ bOut[1].ragas_enabled = FALSE
    /\ bOut[1].per_query[1].photo_accuracy = One

====
